---- MODULE Spec2Model ----
(***************************************************************************)
(* Model of the smartgraph orchestration engine:                           *)
(*   - ReactiveSmartGraph (smartgraph/graph.py): add_node, add_edge and    *)
(*     the asynchronous traversal started by execute;                      *)
(*   - CheckpointManager (smartgraph/checkpoint_manager.py).               *)
(* A traversal is a tree of asyncio tasks, one per call of the coroutine   *)
(* traverse_graph; the event loop runs one step of one task at a time.     *)
(***************************************************************************)
EXTENDS Integers, Sequences, FiniteSets, TLC

VARIABLES
    nodes,        \* self.nodes: node id -> component kind ("absent" when not registered)
    vertices,     \* vertices of self.graph (networkx DiGraph)
    adj,          \* self.graph adjacency: node id -> successors in insertion order
    edgeCond,     \* edge data "condition" per (source, target) pair
    raised,       \* the exception raised by the last add_node / add_edge call:
                  \* its type and the ids its message names
    globalState,  \* state_manager global state: execution_input / execution_result
    call,         \* the execute call as seen by its caller
    tasks,        \* asyncio tasks of the traversal, in creation order
    checkpoints,  \* CheckpointManager.checkpoints: thread -> loaded checkpoints
    disk,         \* <storage_path>/<thread>.json
    lastSaved,    \* per thread, the checkpoint passed to the latest save_checkpoint
                  \* call since the thread was last cleared
    ret,          \* outcome of the last CheckpointManager call
    sm,           \* a StateManager: _state, _reducers and the outcome of its last call
    mem,          \* a MemoryManager: state, lock, memory file, calls in progress
    hitl,         \* a HumanInTheLoopComponent: event, stored input, process call
    saves,        \* save_checkpoint calls in progress, per caller
    pipe,         \* an execute call of the pipeline graph and its subscriber
    retry,        \* a RetryComponent and its process call
    cache         \* a CacheComponent and its process calls

vars == <<nodes, vertices, adj, edgeCond, raised, globalState, call, tasks,
          checkpoints, disk, lastSaved, ret, sm, mem, hitl, saves, pipe, retry, cache>>

graphVars == <<nodes, vertices, adj, edgeCond, raised>>
runVars   == <<globalState, call, tasks>>
ckptVars  == <<checkpoints, disk, lastSaved, ret>>
extVars   == <<saves, pipe, retry, cache>>
libVars   == <<sm, mem, hitl, extVars>>

-----------------------------------------------------------------------------
(* Bounds and input sets *)

\* cap on the number of node executions (tasks) of one traversal
MaxExec == 5

\* nesting depth at which a chain of cancel calls exceeds the recursion limit
\* of the interpreter (1000 frames there, scaled to the size of MaxExec)
CancelDepthLimit == 3

NodeIds == {"A", "B", "C", "D"}

\* an id that is never registered
UnknownId == "Z"

\* behaviours of the wrapped component of a node
Components == {"append", "exit", "raiseValue", "raiseOther", "aggregator"}

\* arguments of add_node: (id, component)
NodeInputs ==
    { <<"A", "append">>,
      <<"B", "append">>, <<"B", "raiseValue">>, <<"B", "exit">>,
      <<"C", "append">>, <<"C", "raiseOther">>,
      <<"D", "append">>, <<"D", "aggregator">> }

\* predicates on a node result that edge conditions are built from
Predicates == {"ok", "short"}

\* the condition of a ReactiveEdge built without one: always true
DefaultCondition == <<>>

\* edge conditions: the predicates that must all hold; <<>> is the edge
\* without condition
CondKinds == { DefaultCondition, <<"short">>, <<"ok", "short">> }

\* edge data of a pair of nodes without edge
NoCond == <<"no edge">>

\* (source, target) of the edges offered to add_edge
EdgePairs ==
    { <<"A", "B">>, <<"A", "C">>, <<"B", "C">>, <<"B", "D">>, <<"C", "D">>,
      <<"D", "A">>, <<"C", "C">>, <<"A", UnknownId>>, <<UnknownId, "A">> }

\* arguments of add_edge: (source, target, condition)
EdgeInputs ==
    { <<e[1], e[2], DefaultCondition>> : e \in EdgePairs }
    \cup { <<"B", "D", <<"ok", "short">>>>, <<"C", "C", <<"short">>>> }

AllIds == NodeIds \cup {UnknownId}

NoPayload == [trace |-> <<>>, response |-> "none"]

\* arguments of update_global_state: a result left by an earlier run
Patches == { [execution_result |-> [trace |-> <<"D">>, response |-> "ok"]] }

NoError == [type |-> "none", about |-> <<>>]

\* the input_data values passed to execute
Inputs == { [trace |-> <<>>, response |-> "hi"] }

Threads == {"t1", "t2"}

\* the thread of the session that calls execute
SessionThread == "t1"

NoCkpt == [node_id |-> "none", state |-> "none", next_nodes |-> <<>>]

\* ret before any call; cp is the returned checkpoint (NoCkpt for None),
\* hydrated tells that the call loaded the thread from disk, removed that
\* clear_checkpoints found a file to delete, exc the exception it raised
NoCall == [op |-> "none", thread |-> "none", node_id |-> "none", cp |-> NoCkpt,
           hydrated |-> FALSE, removed |-> FALSE, exc |-> "none"]

\* arguments of save_checkpoint
CkptInputs ==
    { [node_id |-> "A", state |-> "s1", next_nodes |-> <<"B">>],
      [node_id |-> "A", state |-> "s2", next_nodes |-> <<"B", "C">>],
      [node_id |-> "B", state |-> "s1", next_nodes |-> <<"A">>],
      [node_id |-> "C", state |-> "s2", next_nodes |-> <<>>] }

\* node_id arguments of get_checkpoint
CkptIds == {"A", "B", "C"}

\* what an interrupted _save_to_disk leaves behind: open("w") has truncated
\* the file, the write is missing or partial
DamageKinds == {"empty", "corrupt"}

NoFile == [exists |-> FALSE, text |-> "none", entries |-> <<>>]

\* cap on the number of update_state calls on one StateManager
MaxUpdates == 4

\* keys of a StateManager
Keys == {"log", "sum", "plain"}

\* Python values, tagged with their type; None is the value of an absent key
\* as _state.get(key) gives it
None == [t |-> "none", v |-> <<>>]
PyInt(n) == [t |-> "int", v |-> n]
PyStr(x) == [t |-> "str", v |-> x]
PyList(xs) == [t |-> "list", v |-> xs]

\* arguments of update_state: (key, value)
UpdateInputs ==
    { <<"log", PyStr("a")>>, <<"log", PyStr("b")>>, <<"log", PyList(<<>>)>>,
      <<"sum", PyInt(1)>>, <<"sum", PyInt(2)>>,
      <<"plain", PyStr("a")>>, <<"plain", PyStr("b")>> }

\* arguments of set_reducer: (key, reducer)
ReducerInputs == { <<"log", "list_append">>, <<"sum", "sum">> }

\* StateManager(): no state, no reducers; last is the last call (ghost):
\* its arguments, the value the key had before and the exception it raised
NoUpdate == [op |-> "none", key |-> "none", value |-> None, old |-> None,
             reducer |-> "none", exc |-> "none"]

NewStateManager ==
    [state    |-> [k \in Keys |-> None],
     reducers |-> [k \in Keys |-> "none"],
     base     |-> [k \in Keys |-> None],
     since    |-> [k \in Keys |-> <<>>],
     count    |-> 0,
     last     |-> NoUpdate]

\* cap on the length of long_term.facts
MaxFacts == 2

\* cap on the clock that long-term accesses are dated with
MaxClock == 3

\* age beyond which the long-term cleanup is to evict a key
TTL == 1

\* an attribute an object does not have: getattr raises AttributeError
Missing == [t |-> "missing", v |-> <<>>]
PyDict(items) == [t |-> "dict", v |-> items]

\* keys passed to update_short_term / get_short_term; "mood" is no attribute
\* of ShortTermMemory
ShortKeys == {"last_input", "context", "conversation_history", "mood"}

\* keys passed to update_long_term / get_long_term; "name" is no attribute of
\* LongTermMemory
LongKeys == {"facts", "user_preferences", "name"}

\* arguments of update_short_term: (key, value)
ShortInputs == { <<"last_input", PyStr("hi")>>, <<"mood", PyStr("calm")>> }

\* a str of the memory file is the sequence of its pieces: the characters
\* "#", "-", ":", " " and "\n" of the values one by one, and words that hold
\* none of the separators "##", ": " and "\n" and no blank at either end

\* arguments of update_long_term: (key, value)
LongInputs ==
    { <<"facts", PyStr(<<"f1">>)>>, <<"facts", PyStr(<<"f2">>)>>,
      <<"user_preferences", PyDict(<<<< <<"lang">>, <<"fr">> >>>>)>>,
      <<"name", PyStr(<<"Ann">>)>> }

\* arguments of update_long_term with str values of every shape: a plain
\* word, a trailing blank, the empty str, a line break, a heading mark, and
\* preference values with and without ": "
TextInputs ==
    { <<"facts", PyStr(<<"f1">>)>>,
      <<"facts", PyStr(<<"f1", " ">>)>>,
      <<"facts", PyStr(<<>>)>>,
      <<"facts", PyStr(<<"a", "\n", "b">>)>>,
      <<"facts", PyStr(<<"a", "#", "#", "b">>)>>,
      <<"user_preferences", PyDict(<<<< <<"lang">>, <<"fr">> >>>>)>>,
      <<"user_preferences", PyDict(<<<< <<"note">>, <<"a", ":", " ", "b">> >>>>)>>,
      <<"user_preferences", PyDict(<<<< <<"tone">>, <<>> >>>>)>> }

\* update_conversation_history keeps the last HistoryLimit messages
HistoryLimit == 10

\* cap on the calls of update_conversation_history
MaxMessages == 2

NoMemCall == [op |-> "none", key |-> "none", value |-> None, val |-> None,
              exc |-> "none"]

NoMemFile == [exists |-> FALSE, text |-> <<>>]

\* MemoryManager(memory_file): MemoryState(), an unlocked lock; ult and load
\* are the update_long_term and load_long_term_memory calls in progress; now
\* and accessed date the last access of each long-term key (ghost); fresh
\* tells a manager made over the memory file of an earlier one that has not
\* updated yet, saved what long_term of that earlier manager held (ghost)
NewMemoryManager ==
    [short    |-> [k \in ShortKeys |->
                      IF k = "last_input" THEN PyStr("")
                      ELSE IF k = "context" THEN PyDict(<<>>)
                      ELSE IF k = "conversation_history" THEN PyList(<<>>)
                      ELSE Missing],
     long     |-> [k \in LongKeys |->
                      IF k = "facts" THEN PyList(<<>>)
                      ELSE IF k = "user_preferences" THEN PyDict(<<>>)
                      ELSE Missing],
     lock     |-> "free",
     ult      |-> [at |-> "idle", key |-> "none", value |-> None],
     load     |-> [at |-> "idle", content |-> NoMemFile],
     file     |-> NoMemFile,
     now      |-> 0,
     accessed |-> [k \in LongKeys |-> 0],
     fresh    |-> FALSE,
     saved    |-> [facts |-> <<>>, user_preferences |-> <<>>],
     last     |-> NoMemCall]

\* cap on the calls of submit_human_input
MaxSubmits == 3

\* cap on the calls of process
MaxCalls == 2

\* components of a pipeline
MaxComponents == 3

\* largest max_retries of a RetryComponent
MaxRetries == 3

\* largest cache_size of a CacheComponent
MaxCacheSize == 2

\* cap on the invocations of the component a CacheComponent wraps
MaxInvocations == 4

PyBool(b) == [t |-> "bool", v |-> b]

\* the classes process is called on: the base class leaves
\* _generate_system_output and _process_human_input unimplemented
HumanClasses ==
    {"HumanInTheLoopComponent", "BasicApprovalComponent", "IterativeFeedbackComponent"}

\* _generate_system_output as the class defines it, or patched to raise
\* Exception("Test error")
Generators == {"own", "Test error"}

\* arguments of submit_human_input
HumanInputs ==
    { None, PyBool(TRUE), PyBool(FALSE),
      PyDict(<<<<"feedback", "f1">>>>),
      PyDict(<<<<"feedback", "f2">>, <<"complete", "True">>>>),
      PyDict(<<<<"complete", "True">>>>) }

ComponentName == "test_component"

NoOutcome == [exc |-> "none", text |-> "", val |-> None]

\* HumanInTheLoopComponent(name): the event unset, no stored input, no
\* process call; submitted and consumed list the inputs handed to
\* submit_human_input and those process took up, callMark and waitMark the
\* number of inputs submitted before the process call and before its present
\* wait began, callTaken the number consumed before the call (ghost)
NewHumanInTheLoop ==
    [cls |-> "none", pc |-> "idle", event |-> FALSE, value |-> None,
     system_output |-> None, iteration |-> 0, calls |-> 0,
     submitted |-> <<>>, consumed |-> <<>>, timedOut |-> FALSE,
     callMark |-> 0, callTaken |-> 0, waitMark |-> 0,
     err |-> NoOutcome, ret |-> None, exc |-> "none"]

\* the coroutines that call save_checkpoint on one manager concurrently
Callers == {"c1", "c2"}

\* no save_checkpoint call in progress
NoSaves == [c \in Callers |-> [at |-> "idle", thread |-> "none", data |-> <<>>]]

\* the pipeline graph before execute: no observable, no task, no subscriber
NewPipeline ==
    [call |-> "idle", n |-> 0, timeout |-> FALSE, sub |-> "none",
     task |-> "none", pos |-> 0, mustCancel |-> FALSE, timer |-> "none",
     end |-> "none", timedOut |-> FALSE, stopped |-> FALSE, events |-> <<>>,
     future |-> [done |-> FALSE, by |-> [e |-> "none", x |-> "", v |-> 0]]]

\* no RetryComponent yet; visits counts the calls of process by the
\* orchestrator, calls those of the node visit in progress, log holds how the
\* invocations of the wrapped component ended during the current call
NewRetry ==
    [pc |-> "absent", max_retries |-> 0, visits |-> 0, calls |-> 0, input |-> "none",
     attempt |-> 0, log |-> <<>>, ret |-> <<"none", 0>>, exc |-> <<"none", 0>>]

\* no CacheComponent yet; entries is the dict self.cache in insertion order,
\* invoked counts the invocations of the wrapped component
NewCache ==
    [pc |-> "absent", size |-> 0, entries |-> <<>>, invoked |-> 0,
     calls |-> [c \in Callers |->
                  [pc |-> "idle", key |-> "none", val |-> 0, ret |-> 0, hit |-> FALSE]]]

\* position of a node id in the order of Python string comparison
IdRank == [x \in {"A", "B", "C", "D"} |->
              CASE x = "A" -> 1 [] x = "B" -> 2 [] x = "C" -> 3 [] x = "D" -> 4]

-----------------------------------------------------------------------------
(* Component contract: process(input) -> output, or an exception *)

Raises(comp) == comp \in {"raiseValue", "raiseOther"}

ExcType(comp) == IF comp = "raiseValue" THEN "ValueError" ELSE "RuntimeError"

\* the value returned by node.process(data)
Output(comp, id, data) ==
    [trace    |-> Append(data.trace, id),
     response |-> IF comp = "exit" THEN "Exit" ELSE "ok"]

\* str.lower() on the response values that occur
Lower(s) == IF s \in {"Exit", "EXIT", "exit"} THEN "exit" ELSE s

\* termination convention: response case-insensitively equal to "exit"
IsExit(p) == Lower(p.response) = "exit"

\* one predicate applied to a node result
PredHolds(p, data) ==
    IF p = "ok" THEN data.response = "ok" ELSE Len(data.trace) <= 2

EvaluateAny(conditions, data) ==
    \E k \in 1..Len(conditions) : PredHolds(conditions[k], data)

\* ConditionEvaluator.evaluate: all(condition(data) for condition in conditions)
Evaluate(conditions, data) ==
    \A k \in 1..Len(conditions) : PredHolds(conditions[k], data)

\* condition(result) of an edge; an edge without condition gets lambda _: True
CondHolds(kind, result) == Evaluate(kind, result)

\* the items an aggregator iterates over: traverse_graph passes one result
ItemsOf(data) == {data}

-----------------------------------------------------------------------------
(* Graph construction *)

Init ==
    /\ nodes = [n \in NodeIds |-> "absent"]
    /\ vertices = {}
    /\ adj = [n \in NodeIds |-> <<>>]
    /\ edgeCond = [e \in NodeIds \X NodeIds |-> NoCond]
    /\ raised = NoError
    /\ globalState = [execution_input |-> NoPayload, execution_result |-> NoPayload]
    /\ call = [status |-> "idle", start |-> "none", input |-> NoPayload,
               result |-> NoPayload, exc |-> "none", node_id |-> "none"]
    /\ tasks = <<>>
    /\ checkpoints = [t \in Threads |-> [loaded |-> FALSE, cps |-> <<>>]]
    /\ disk = [t \in Threads |-> NoFile]
    /\ lastSaved = [t \in Threads |-> NoCkpt]
    /\ ret = NoCall
    /\ sm = NewStateManager
    /\ mem = NewMemoryManager
    /\ hitl = NewHumanInTheLoop
    /\ saves = NoSaves
    /\ pipe = NewPipeline
    /\ retry = NewRetry
    /\ cache = NewCache

Registered(id) == id \in NodeIds /\ nodes[id] # "absent"

InSeq(x, s) == \E k \in 1..Len(s) : s[k] = x

AddNodeOverwrites(id, comp) ==
    /\ call.status = "idle"
    /\ nodes' = [nodes EXCEPT ![id] = comp]
    /\ vertices' = vertices \cup {id}
    /\ raised' = NoError
    /\ UNCHANGED <<adj, edgeCond>>
    /\ UNCHANGED <<runVars, ckptVars, libVars>>

AddNode(id, comp) ==
    /\ call.status = "idle"
    /\ IF Registered(id)
       THEN /\ raised' = [type |-> "GraphStructureError", about |-> <<id>>]
            /\ UNCHANGED <<nodes, vertices, adj, edgeCond>>
       ELSE /\ nodes' = [nodes EXCEPT ![id] = comp]
            /\ vertices' = vertices \cup {id}
            /\ raised' = NoError
            /\ UNCHANGED <<adj, edgeCond>>
    /\ UNCHANGED <<runVars, ckptVars, libVars>>

ValidEdgeSourceOnly(s, t) == Registered(s) /\ t \in NodeIds

\* the check of add_edge: both ends are keys of self.nodes
ValidEdge(s, t) == Registered(s) /\ Registered(t)

AddEdgeUnchecked(s, t, cond) ==
    /\ call.status = "idle"
    /\ IF s \notin NodeIds \/ t \notin NodeIds
       THEN /\ raised' = [type |-> "GraphStructureError", about |-> <<s, t>>]
            /\ UNCHANGED <<nodes, vertices, adj, edgeCond>>
       ELSE /\ adj' = IF InSeq(t, adj[s]) THEN adj
                      ELSE [adj EXCEPT ![s] = Append(@, t)]
            /\ edgeCond' = [edgeCond EXCEPT ![<<s, t>>] = cond]
            /\ vertices' = vertices \cup {s, t}
            /\ raised' = NoError
            /\ UNCHANGED nodes
    /\ UNCHANGED <<runVars, ckptVars, libVars>>

\* DiGraph.add_edge keeps the position of an edge that exists, replaces its
\* data, and would add a missing end as a vertex
AddEdge(s, t, cond) ==
    /\ call.status = "idle"
    /\ IF ~ValidEdge(s, t)
       THEN /\ raised' = [type |-> "GraphStructureError", about |-> <<s, t>>]
            /\ UNCHANGED <<nodes, vertices, adj, edgeCond>>
       ELSE /\ adj' = IF InSeq(t, adj[s]) THEN adj
                      ELSE [adj EXCEPT ![s] = Append(@, t)]
            /\ edgeCond' = [edgeCond EXCEPT ![<<s, t>>] = cond]
            /\ vertices' = vertices \cup {s, t}
            /\ raised' = NoError
            /\ UNCHANGED nodes
    /\ UNCHANGED <<runVars, ckptVars, libVars>>

\* update_global_state(patch): the keys of patch replace those of the state
UpdateGlobalState(patch) ==
    /\ call.status = "idle"
    /\ globalState' = [k \in DOMAIN globalState |->
                          IF k \in DOMAIN patch THEN patch[k] ELSE globalState[k]]
    /\ UNCHANGED <<graphVars, call, tasks, ckptVars, libVars>>

-----------------------------------------------------------------------------
(* Traversal *)

NewTask(id, parent, data) ==
    [node |-> id, parent |-> parent, input |-> data, pc |-> "running",
     out |-> NoPayload, result |-> NoPayload, exc |-> "none", by |-> "none",
     kids |-> <<>>, g |-> "none", gexc |-> "none", gby |-> "none", lastKid |-> 0]

ExecuteRecordsInputFirst(start, data) ==
    /\ call.status = "idle"
    /\ raised' = NoError
    /\ globalState' = [globalState EXCEPT !.execution_input = data]
    /\ IF ~Registered(start)
       THEN /\ call' = [call EXCEPT !.status = "raised", !.start = start, !.input = data,
                                    !.exc = "GraphStructureError"]
            /\ UNCHANGED tasks
       ELSE /\ call' = [call EXCEPT !.status = "running", !.start = start, !.input = data]
            /\ tasks' = <<NewTask(start, 0, data)>>
    /\ UNCHANGED <<nodes, vertices, adj, edgeCond, ckptVars, libVars>>

\* execute up to the first suspension of the root task
Execute(start, data) ==
    /\ call.status = "idle"
    /\ raised' = NoError
    /\ IF ~Registered(start)
       THEN /\ call' = [call EXCEPT !.status = "raised", !.start = start, !.input = data,
                                    !.exc = "GraphStructureError"]
            /\ UNCHANGED <<globalState, tasks>>
       ELSE /\ globalState' = [globalState EXCEPT !.execution_input = data]
            /\ call' = [call EXCEPT !.status = "running", !.start = start, !.input = data]
            /\ tasks' = <<NewTask(start, 0, data)>>
    /\ UNCHANGED <<nodes, vertices, adj, edgeCond, ckptVars, libVars>>

Live(pc) == pc \in {"running", "gathering"}

AllDone(ts, ks) == \A k \in 1..Len(ks) : ts[ks[k]].pc = "done"

\* task i ends; the done-callback of the gather its parent awaits runs
CompleteTask(ts, i, pc, result, exc, by) ==
    LET p  == ts[i].parent
        t1 == [ts EXCEPT ![i].pc = pc, ![i].result = result,
                         ![i].exc = exc, ![i].by = by]
    IN  IF p = 0 \/ t1[p].g # "pending" THEN t1
        ELSE IF pc = "failed"
             THEN [t1 EXCEPT ![p].g = "exc", ![p].gexc = exc, ![p].gby = by,
                             ![p].lastKid = i]
             ELSE IF AllDone(t1, t1[p].kids)
                  THEN [t1 EXCEPT ![p].g = "ok", ![p].lastKid = i]
                  ELSE [t1 EXCEPT ![p].lastKid = i]

ValidSuccessorsNoSelfLoop(id, result) ==
    SelectSeq(adj[id], LAMBDA n : n # id /\ CondHolds(edgeCond[<<id, n>>], result))

ValidSuccessors(id, result) ==
    SelectSeq(adj[id], LAMBDA n : CondHolds(edgeCond[<<id, n>>], result))

\* results[0] in place of results[-1]
LastResultFirst(ts, ks) == ts[ks[1]].result

\* the result of the task that finished last in time
LastResultLastFinished(ts, ks) == ts[ts[ts[ks[1]].parent].lastKid].result

\* results[-1] of the gathered results
LastResult(ts, ks) == ts[ks[Len(ks)]].result

\* the successors are given the input of node i in place of its result
SpawnStaleInput(ts, i, res, next) ==
    LET n == Len(ts)
    IN  [ts EXCEPT ![i].out = res, ![i].pc = "gathering", ![i].g = "pending",
                   ![i].kids = [k \in 1..Len(next) |-> n + k]]
        \o [k \in 1..Len(next) |-> NewTask(next[k], i, ts[i].input)]

\* one task per valid successor, each given the result of node i
Spawn(ts, i, res, next) ==
    LET n == Len(ts)
    IN  [ts EXCEPT ![i].out = res, ![i].pc = "gathering", ![i].g = "pending",
                   ![i].kids = [k \in 1..Len(next) |-> n + k]]
        \o [k \in 1..Len(next) |-> NewTask(next[k], i, res)]

\* node.process of task i returns or raises; traverse_graph runs on to its
\* return or to the await of asyncio.gather
FinishNode(i) ==
    /\ i \in 1..Len(tasks)
    /\ tasks[i].pc = "running"
    /\ LET id   == tasks[i].node
           comp == nodes[id]
           res  == Output(comp, id, tasks[i].input)
           next == ValidSuccessors(id, res)
           n    == Len(tasks)
       IN  IF Raises(comp)
           THEN tasks' = CompleteTask(tasks, i, "failed", NoPayload, ExcType(comp), id)
           ELSE IF next = <<>>
                THEN tasks' = CompleteTask([tasks EXCEPT ![i].out = res], i, "done",
                                           res, "none", "none")
                ELSE /\ n + Len(next) <= MaxExec
                     /\ tasks' = Spawn(tasks, i, res, next)
    /\ UNCHANGED <<graphVars, globalState, call, ckptVars, libVars>>

\* the task awaiting asyncio.gather resumes
GatherWake(p) ==
    /\ p \in 1..Len(tasks)
    /\ tasks[p].pc = "gathering"
    /\ tasks[p].g \in {"ok", "exc"}
    /\ tasks' = IF tasks[p].g = "ok"
                THEN CompleteTask(tasks, p, "done", LastResult(tasks, tasks[p].kids),
                                  "none", "none")
                ELSE CompleteTask(tasks, p, "failed", NoPayload,
                                  tasks[p].gexc, tasks[p].gby)
    /\ UNCHANGED <<graphVars, globalState, call, ckptVars, libVars>>

\* the result is returned without being written to the global state
ExecuteReturnKeepsState ==
    /\ call.status = "running"
    /\ tasks[1].pc \in {"done", "failed"}
    /\ IF tasks[1].pc = "done"
       THEN call' = [call EXCEPT !.status = "returned", !.result = tasks[1].result]
       ELSE call' = IF tasks[1].exc = "ValueError"
                    THEN [call EXCEPT !.status = "raised", !.exc = "ExecutionError",
                                      !.node_id = call.start]
                    ELSE [call EXCEPT !.status = "raised", !.exc = tasks[1].exc]
    /\ UNCHANGED <<graphVars, globalState, tasks, ckptVars, libVars>>

\* asyncio.wait_for resumes execute once the root task has ended
ExecuteReturn ==
    /\ call.status = "running"
    /\ tasks[1].pc \in {"done", "failed"}
    /\ IF tasks[1].pc = "done"
       THEN /\ globalState' = [globalState EXCEPT !.execution_result = tasks[1].result]
            /\ call' = [call EXCEPT !.status = "returned", !.result = tasks[1].result]
       ELSE /\ call' = IF tasks[1].exc = "ValueError"
                       THEN [call EXCEPT !.status = "raised", !.exc = "ExecutionError",
                                         !.node_id = call.start]
                       ELSE [call EXCEPT !.status = "raised", !.exc = tasks[1].exc]
            /\ UNCHANGED globalState
    /\ UNCHANGED <<graphVars, tasks, ckptVars, libVars>>

\* Task.cancel on a task that awaits a pending gather calls cancel on the
\* gather, which calls cancel on every child in order: one nested call per
\* level of the task tree. CancelFrom gives the tasks whose cancel call
\* returned, and ok = FALSE when a call at depth d > CancelDepthLimit raised
\* RecursionError, which ends every enclosing call before it marks its task.
RECURSIVE CancelFrom(_, _, _), CancelKids(_, _, _, _)
CancelFrom(ts, i, d) ==
    IF ~Live(ts[i].pc) THEN [ok |-> TRUE, set |-> {}]
    ELSE IF d > CancelDepthLimit THEN [ok |-> FALSE, set |-> {}]
    ELSE IF ts[i].pc = "gathering" /\ ts[i].g = "pending"
         THEN LET r == CancelKids(ts, ts[i].kids, 1, d + 1)
              IN  IF r.ok THEN [ok |-> TRUE, set |-> r.set \cup {i}] ELSE r
         ELSE [ok |-> TRUE, set |-> {i}]

CancelKids(ts, ks, k, d) ==
    IF k > Len(ks) THEN [ok |-> TRUE, set |-> {}]
    ELSE LET r == CancelFrom(ts, ks[k], d)
         IN  IF ~r.ok THEN r
             ELSE LET q == CancelKids(ts, ks, k + 1, d)
                  IN  [ok |-> q.ok, set |-> r.set \cup q.set]

\* a pending gather with a cancelled child raises CancelledError in its task
RECURSIVE Propagate(_, _, _)
Propagate(ts, S, n) ==
    IF n = 0 THEN S
    ELSE Propagate(ts,
                   S \cup { i \in 1..Len(ts) :
                              /\ ts[i].pc = "gathering" /\ ts[i].g = "pending"
                              /\ \E k \in 1..Len(ts[i].kids) : ts[i].kids[k] \in S },
                   n - 1)

\* the timeout handler stores an empty result in the global state
TimeoutWritesResult ==
    /\ call.status = "running"
    /\ Live(tasks[1].pc)
    /\ LET r == CancelFrom(tasks, 1, 1)
           c == Propagate(tasks, r.set, Len(tasks))
       IN  /\ tasks' = [i \in 1..Len(tasks) |->
                           IF i \in c THEN [tasks[i] EXCEPT !.pc = "cancelled"]
                           ELSE tasks[i]]
           /\ call' = [call EXCEPT !.status = "raised",
                                   !.exc = IF r.ok THEN "TimeoutError"
                                           ELSE "RecursionError"]
    /\ globalState' = [globalState EXCEPT !.execution_result = NoPayload]
    /\ UNCHANGED <<graphVars, ckptVars, libVars>>

\* the 60 s timeout of asyncio.wait_for expires before the root task has
\* ended: wait_for cancels the root task and raises TimeoutError, or passes on
\* the RecursionError of the cancel call
Timeout ==
    /\ call.status = "running"
    /\ Live(tasks[1].pc)
    /\ LET r == CancelFrom(tasks, 1, 1)
           c == Propagate(tasks, r.set, Len(tasks))
       IN  /\ tasks' = [i \in 1..Len(tasks) |->
                           IF i \in c THEN [tasks[i] EXCEPT !.pc = "cancelled"]
                           ELSE tasks[i]]
           /\ call' = [call EXCEPT !.status = "raised",
                                   !.exc = IF r.ok THEN "TimeoutError"
                                           ELSE "RecursionError"]
    /\ UNCHANGED <<graphVars, globalState, ckptVars, libVars>>


-----------------------------------------------------------------------------
(* CheckpointManager *)

\* CheckpointManager(storage_path) on the existing storage directory
NewManager ==
    /\ checkpoints' = [t \in Threads |-> [loaded |-> FALSE, cps |-> <<>>]]
    /\ ret' = [NoCall EXCEPT !.op = "init"]
    /\ UNCHANGED <<graphVars, runVars, libVars, disk, lastSaved>>

HasNode(cps, id) == \E k \in 1..Len(cps) : cps[k].node_id = id

UpsertAppends(cps, cp) == Append(cps, cp)

\* dict assignment d[cp.node_id] = cp: a present key keeps its position
Upsert(cps, cp) ==
    IF HasNode(cps, cp.node_id)
    THEN [k \in 1..Len(cps) |-> IF cps[k].node_id = cp.node_id THEN cp ELSE cps[k]]
    ELSE Append(cps, cp)

\* d.get(node_id)
FindNode(cps, id) ==
    IF HasNode(cps, id) THEN cps[CHOOSE k \in 1..Len(cps) : cps[k].node_id = id]
    ELSE NoCkpt

\* cp.dict(): the three fields of a Checkpoint as a JSON object
Dict(cp) == [node_id |-> cp.node_id, state |-> cp.state, next_nodes |-> cp.next_nodes]

\* the JSON object _save_to_disk writes: one member per checkpoint, keyed by
\* node id, in dict order
ToJson(cps) == [k \in 1..Len(cps) |-> [key |-> cps[k].node_id, value |-> Dict(cps[k])]]

\* Checkpoint(**cp_data) for every member of the parsed JSON object
FromJson(entries) ==
    [k \in 1..Len(entries) |->
        [node_id    |-> entries[k].value.node_id,
         state      |-> entries[k].value.state,
         next_nodes |-> entries[k].value.next_nodes]]

\* the body of the try block of load_from_disk
ReadFile(t) ==
    IF ~disk[t].exists THEN [exc |-> "FileNotFoundError", cps |-> <<>>]
    ELSE IF disk[t].text = "empty" THEN [exc |-> "none", cps |-> <<>>]
    ELSE IF disk[t].text = "corrupt" THEN [exc |-> "JSONDecodeError", cps |-> <<>>]
    ELSE [exc |-> "none", cps |-> FromJson(disk[t].entries)]

\* the except clauses of load_from_disk; the last one catches every Exception
Handlers == {"FileNotFoundError", "JSONDecodeError", "Exception"}

\* the exception that leaves load_from_disk
LoadEscapesDecodeError(t) ==
    IF ReadFile(t).exc = "JSONDecodeError" THEN "JSONDecodeError" ELSE "none"

LoadEscapes(t) ==
    IF ReadFile(t).exc \in Handlers \/ "Exception" \in Handlers THEN "none"
    ELSE ReadFile(t).exc

\* the dict a thread gets from load_from_disk
LoadFromDisk(t) == IF ReadFile(t).exc = "none" THEN ReadFile(t).cps ELSE <<>>

\* max(values, key=lambda c: c.node_id)
MaxByNodeId(cps) ==
    LET k == CHOOSE k \in 1..Len(cps) :
                 \A j \in 1..Len(cps) : IdRank[cps[j].node_id] <= IdRank[cps[k].node_id]
    IN  cps[k]

SaveCheckpoint(t, cp) ==
    /\ LET old == IF checkpoints[t].loaded THEN checkpoints[t].cps ELSE <<>>
           new == Upsert(old, cp)
       IN  /\ checkpoints' = [checkpoints EXCEPT ![t] = [loaded |-> TRUE, cps |-> new]]
           /\ disk' = [disk EXCEPT ![t] = [exists |-> TRUE, text |-> "json",
                                           entries |-> ToJson(new)]]
    /\ lastSaved' = [lastSaved EXCEPT ![t] = cp]
    /\ ret' = [NoCall EXCEPT !.op = "save", !.thread = t, !.node_id = cp.node_id]
    /\ UNCHANGED <<graphVars, runVars, libVars>>

\* the common head of get_checkpoint and get_latest_checkpoint: a thread that
\* is not in memory is loaded from disk first
Hydrate(t) ==
    IF checkpoints[t].loaded THEN checkpoints
    ELSE [checkpoints EXCEPT ![t] = [loaded |-> TRUE, cps |-> LoadFromDisk(t)]]

GetCheckpoint(t, id) ==
    /\ IF ~checkpoints[t].loaded /\ LoadEscapes(t) # "none"
       THEN /\ ret' = [NoCall EXCEPT !.op = "get", !.thread = t, !.node_id = id,
                                     !.hydrated = TRUE, !.exc = LoadEscapes(t)]
            /\ UNCHANGED checkpoints
       ELSE /\ checkpoints' = Hydrate(t)
            /\ ret' = [NoCall EXCEPT !.op = "get", !.thread = t, !.node_id = id,
                                     !.hydrated = ~checkpoints[t].loaded,
                                     !.cp = FindNode(Hydrate(t)[t].cps, id)]
    /\ UNCHANGED <<graphVars, runVars, libVars, disk, lastSaved>>

GetLatestCheckpoint(t) ==
    /\ IF ~checkpoints[t].loaded /\ LoadEscapes(t) # "none"
       THEN /\ ret' = [NoCall EXCEPT !.op = "get_latest", !.thread = t,
                                     !.hydrated = TRUE, !.exc = LoadEscapes(t)]
            /\ UNCHANGED checkpoints
       ELSE /\ checkpoints' = Hydrate(t)
            /\ LET cps == Hydrate(t)[t].cps
               IN  ret' = [NoCall EXCEPT !.op = "get_latest", !.thread = t,
                                         !.hydrated = ~checkpoints[t].loaded,
                                         !.cp = IF cps = <<>> THEN NoCkpt
                                                ELSE MaxByNodeId(cps)]
    /\ UNCHANGED <<graphVars, runVars, libVars, disk, lastSaved>>

ClearCheckpointsKeepsFile(t) ==
    /\ checkpoints' = [checkpoints EXCEPT ![t] = [loaded |-> FALSE, cps |-> <<>>]]
    /\ lastSaved' = [lastSaved EXCEPT ![t] = NoCkpt]
    /\ ret' = [NoCall EXCEPT !.op = "clear", !.thread = t, !.removed = disk[t].exists]
    /\ UNCHANGED <<graphVars, runVars, libVars, disk>>

\* del self.checkpoints[t] if present, then os.remove; a missing file is ignored
ClearCheckpoints(t) ==
    /\ checkpoints' = [checkpoints EXCEPT ![t] = [loaded |-> FALSE, cps |-> <<>>]]
    /\ disk' = [disk EXCEPT ![t] = NoFile]
    /\ lastSaved' = [lastSaved EXCEPT ![t] = NoCkpt]
    /\ ret' = [NoCall EXCEPT !.op = "clear", !.thread = t, !.removed = disk[t].exists]
    /\ UNCHANGED <<graphVars, runVars, libVars>>

\* the process dies inside _save_to_disk: the file is left truncated or
\* partly written, and the store of that process is gone
InterruptedWrite(t, kind) ==
    /\ checkpoints' = [u \in Threads |-> [loaded |-> FALSE, cps |-> <<>>]]
    /\ disk' = [disk EXCEPT ![t] = [exists |-> TRUE, text |-> kind, entries |-> <<>>]]
    /\ ret' = [NoCall EXCEPT !.op = "crash", !.thread = t]
    /\ UNCHANGED <<graphVars, runVars, libVars, lastSaved>>


\* save_checkpoint of caller c up to its first suspension: the checkpoint is
\* put into the dict of the thread, _save_to_disk builds data from that dict
\* and waits for the file to be opened
SaveBegin(c, t, cp) ==
    /\ saves[c].at = "idle"
    /\ LET old == IF checkpoints[t].loaded THEN checkpoints[t].cps ELSE <<>>
           new == Upsert(old, cp)
       IN  /\ checkpoints' = [checkpoints EXCEPT ![t] = [loaded |-> TRUE, cps |-> new]]
           /\ saves' = [saves EXCEPT ![c] = [at |-> "open", thread |-> t,
                                             data |-> ToJson(new)]]
    /\ lastSaved' = [lastSaved EXCEPT ![t] = cp]
    /\ UNCHANGED <<graphVars, runVars, disk, ret, sm, mem, hitl, pipe, retry, cache>>

\* aiofiles.open(file_path, "w") returns to caller c: the file is truncated
SaveOpen(c) ==
    /\ saves[c].at = "open"
    /\ disk' = [disk EXCEPT ![saves[c].thread] =
                   [exists |-> TRUE, text |-> "empty", entries |-> <<>>]]
    /\ saves' = [saves EXCEPT ![c].at = "write"]
    /\ UNCHANGED <<graphVars, runVars, checkpoints, lastSaved, ret, sm, mem, hitl,
                   pipe, retry, cache>>

\* length of the text json.dumps gives for the members, up to a scale
TextSize(entries) ==
    LET RECURSIVE Sum(_)
        Sum(k) == IF k = 0 THEN 0
                  ELSE Sum(k - 1) + 1 + Len(entries[k].value.next_nodes)
    IN  Sum(Len(entries))

\* the file after a handle opened before the present content was written
\* writes its text from offset 0: a longer present content keeps its tail
Overwritten(file, data) ==
    IF file.text = "corrupt" \/ (file.text = "json" /\ TextSize(file.entries) > TextSize(data))
    THEN [exists |-> TRUE, text |-> "corrupt", entries |-> <<>>]
    ELSE [exists |-> TRUE, text |-> "json", entries |-> data]

\* the write of caller c is flushed, its file closed, save_checkpoint returns
SaveWrite(c) ==
    /\ saves[c].at = "write"
    /\ disk' = [disk EXCEPT ![saves[c].thread] = Overwritten(@, saves[c].data)]
    /\ saves' = [saves EXCEPT ![c] = [at |-> "idle", thread |-> "none", data |-> <<>>]]
    /\ ret' = [NoCall EXCEPT !.op = "save", !.thread = saves[c].thread]
    /\ UNCHANGED <<graphVars, runVars, checkpoints, lastSaved, sm, mem, hitl,
                   pipe, retry, cache>>

-----------------------------------------------------------------------------
(* StateManager and reducers *)

\* the reducer functions: list_append_reducer of reducers.py and the reducer
\* lambda old, new: (old or 0) + new of the tests; val is the value returned,
\* exc the exception raised
Reducer(name, old, new) ==
    IF name = "list_append"
    THEN IF old.t = "list" THEN [exc |-> "none", val |-> PyList(Append(old.v, new))]
         ELSE [exc |-> "TypeError", val |-> None]
    ELSE IF new.t # "int" THEN [exc |-> "TypeError", val |-> None]
    ELSE IF old.t = "none" \/ (old.t = "int" /\ old.v = 0)
         THEN [exc |-> "none", val |-> new]
    ELSE IF old.t = "int" THEN [exc |-> "none", val |-> PyInt(old.v + new.v)]
    ELSE [exc |-> "TypeError", val |-> None]

SetReducer(key, name) ==
    /\ sm' = [sm EXCEPT !.reducers[key] = name,
                        !.base[key] = sm.state[key],
                        !.since[key] = <<>>,
                        !.last = [NoUpdate EXCEPT !.op = "set_reducer", !.key = key,
                                                  !.reducer = name]]
    /\ UNCHANGED <<graphVars, runVars, ckptVars, mem, hitl, extVars>>

UpdateStateOverwrites(key, value) ==
    /\ sm.count < MaxUpdates
    /\ sm' = [sm EXCEPT !.state[key] = value,
                        !.since[key] = Append(@, value),
                        !.count = @ + 1,
                        !.last = [NoUpdate EXCEPT !.op = "update", !.key = key,
                                      !.value = value, !.old = sm.state[key],
                                      !.reducer = sm.reducers[key]]]
    /\ UNCHANGED <<graphVars, runVars, ckptVars, mem, hitl, extVars>>

\* update_state: the reducer of the key when it has one, else the value itself;
\* an exception of the reducer leaves _state as it was
UpdateState(key, value) ==
    /\ sm.count < MaxUpdates
    /\ LET old  == sm.state[key]
           r    == IF sm.reducers[key] # "none" THEN Reducer(sm.reducers[key], old, value)
                   ELSE [exc |-> "none", val |-> value]
           last == [NoUpdate EXCEPT !.op = "update", !.key = key, !.value = value,
                                    !.old = old, !.reducer = sm.reducers[key],
                                    !.exc = r.exc]
       IN  sm' = IF r.exc = "none"
                 THEN [sm EXCEPT !.state[key] = r.val,
                                 !.since[key] = Append(@, value),
                                 !.count = @ + 1,
                                 !.last = last]
                 ELSE [sm EXCEPT !.since[key] = Append(@, value),
                                 !.count = @ + 1,
                                 !.last = last]
    /\ UNCHANGED <<graphVars, runVars, ckptVars, mem, hitl, extVars>>

\* clear_state: _state.clear(); the reducers stay
ClearState ==
    /\ sm' = [sm EXCEPT !.state = [k \in Keys |-> None],
                        !.base = [k \in Keys |-> None],
                        !.since = [k \in Keys |-> <<>>],
                        !.last = [NoUpdate EXCEPT !.op = "clear"]]
    /\ UNCHANGED <<graphVars, runVars, ckptVars, mem, hitl, extVars>>

-----------------------------------------------------------------------------
(* MemoryManager *)

\* dict.update with one item: a present key keeps its position
DictUpdate(items, new) ==
    LET RECURSIVE Put(_, _)
        Put(d, kv) ==
            IF \E i \in 1..Len(d) : d[i][1] = kv[1]
            THEN [i \in 1..Len(d) |-> IF d[i][1] = kv[1] THEN kv ELSE d[i]]
            ELSE Append(d, kv)
        RECURSIVE Fold(_, _)
        Fold(d, n) == IF n > Len(new) THEN d ELSE Fold(Put(d, new[n]), n + 1)
    IN  Fold(items, 1)

\* update_short_term: setattr under the lock
UpdateShortTerm(key, value) ==
    /\ mem.lock = "free"
    /\ mem' = [mem EXCEPT !.short[key] = value,
                          !.last = [NoMemCall EXCEPT !.op = "update_short", !.key = key,
                                                     !.value = value]]
    /\ UNCHANGED <<graphVars, runVars, ckptVars, sm, hitl, extVars>>

\* get_short_term: getattr under the lock
GetShortTerm(key) ==
    /\ mem.lock = "free"
    /\ mem' = [mem EXCEPT !.last =
                   [NoMemCall EXCEPT !.op = "get_short", !.key = key,
                       !.val = IF mem.short[key] = Missing THEN None ELSE mem.short[key],
                       !.exc = IF mem.short[key] = Missing THEN "AttributeError"
                               ELSE "none"]]
    /\ UNCHANGED <<graphVars, runVars, ckptVars, sm, hitl, extVars>>

\* get_long_term: getattr under the lock
GetLongTerm(key) ==
    /\ mem.lock = "free"
    /\ mem' = [mem EXCEPT !.last =
                   [NoMemCall EXCEPT !.op = "get_long", !.key = key,
                       !.val = IF mem.long[key] = Missing THEN None ELSE mem.long[key],
                       !.exc = IF mem.long[key] = Missing THEN "AttributeError"
                               ELSE "none"],
                          !.accessed[key] = mem.now]
    /\ UNCHANGED <<graphVars, runVars, ckptVars, sm, hitl, extVars>>

\* update_conversation_history: append under the lock, keep the last messages
UpdateConversationHistory(message) ==
    /\ mem.lock = "free"
    /\ LET h == Append(mem.short["conversation_history"].v, message)
           n == Len(h)
       IN  mem' = [mem EXCEPT
                      !.short["conversation_history"] =
                          PyList(IF n <= HistoryLimit THEN h
                                 ELSE SubSeq(h, n - HistoryLimit + 1, n)),
                      !.last = [NoMemCall EXCEPT !.op = "update_history"]]
    /\ UNCHANGED <<graphVars, runVars, ckptVars, sm, hitl, extVars>>

\* the change update_long_term makes to long_term: facts appends,
\* user_preferences updates, any other key changes nothing
LongTermApplied(long, key, value) ==
    IF key = "facts" THEN [long EXCEPT !["facts"] = PyList(Append(@.v, value.v))]
    ELSE IF key = "user_preferences"
         THEN [long EXCEPT !["user_preferences"] = PyDict(DictUpdate(@.v, value.v))]
    ELSE long

\* update_long_term up to its first suspension: the lock is taken, long_term
\* changed, and _save_long_term_memory waits for the file to be opened
UpdateLongTermBegin(key, value) ==
    /\ mem.lock = "free"
    /\ mem.ult.at = "idle"
    /\ key = "facts" => Len(mem.long["facts"].v) < MaxFacts
    /\ mem' = [mem EXCEPT !.lock = "update_long_term",
                          !.fresh = FALSE,
                          !.long = LongTermApplied(mem.long, key, value),
                          !.accessed[key] = mem.now,
                          !.ult = [at |-> "open", key |-> key, value |-> value]]
    /\ UNCHANGED <<graphVars, runVars, ckptVars, sm, hitl, extVars>>

\* aiofiles.open(memory_file, "w") returns: the file exists and is empty
UpdateLongTermOpen ==
    /\ mem.ult.at = "open"
    /\ mem' = [mem EXCEPT !.file = [exists |-> TRUE, text |-> <<>>],
                          !.ult.at = "write"]
    /\ UNCHANGED <<graphVars, runVars, ckptVars, sm, hitl, extVars>>

RECURSIVE Concat(_)
Concat(ss) == IF ss = <<>> THEN <<>> ELSE Head(ss) \o Concat(Tail(ss))

\* the text _save_long_term_memory writes: the title, "- fact\n" per fact
\* under "## Facts", "- key: value\n" per preference under
\* "## User Preferences"
Render(long) ==
    [exists |-> TRUE,
     text   |->
        <<"#", " ", "Long-Term Memory", "\n", "\n">>
        \o <<"#", "#", " ", "Facts", "\n", "\n">>
        \o Concat([i \in 1..Len(long["facts"].v) |->
                      <<"-", " ">> \o long["facts"].v[i] \o <<"\n">>])
        \o <<"\n", "#", "#", " ", "User Preferences", "\n", "\n">>
        \o Concat([i \in 1..Len(long["user_preferences"].v) |->
                      <<"-", " ">> \o long["user_preferences"].v[i][1] \o <<":", " ">>
                      \o long["user_preferences"].v[i][2] \o <<"\n">>])]

\* the writes are flushed, the file closed and the lock released
UpdateLongTermWrite ==
    /\ mem.ult.at = "write"
    /\ mem' = [mem EXCEPT !.file = Render(mem.long),
                          !.lock = "free",
                          !.ult = [at |-> "idle", key |-> "none", value |-> None],
                          !.last = [NoMemCall EXCEPT !.op = "update_long",
                                        !.key = mem.ult.key, !.value = mem.ult.value]]
    /\ UNCHANGED <<graphVars, runVars, ckptVars, sm, hitl, extVars>>

\* load_long_term_memory up to the end of f.read(): no lock is taken; a
\* missing file ends the call
LoadLongTermRead ==
    /\ mem.load.at = "idle"
    /\ mem' = IF mem.file.exists
              THEN [mem EXCEPT !.load = [at |-> "parse", content |-> mem.file]]
              ELSE [mem EXCEPT !.last = [NoMemCall EXCEPT !.op = "load"]]
    /\ UNCHANGED <<graphVars, runVars, ckptVars, sm, hitl, extVars>>

\* the first place from i on where sep occurs in s, 0 if there is none
RECURSIVE Find(_, _, _)
Find(s, sep, i) ==
    IF i + Len(sep) - 1 > Len(s) THEN 0
    ELSE IF \A k \in 1..Len(sep) : s[i + k - 1] = sep[k] THEN i
    ELSE Find(s, sep, i + 1)

\* s.split(sep)
RECURSIVE Split(_, _)
Split(s, sep) ==
    LET j == Find(s, sep, 1)
    IN  IF j = 0 THEN <<s>>
        ELSE <<SubSeq(s, 1, j - 1)>> \o Split(SubSeq(s, j + Len(sep), Len(s)), sep)

Whitespace == {" ", "\n"}

\* s.strip()
RECURSIVE Strip(_)
Strip(s) ==
    IF s = <<>> THEN s
    ELSE IF Head(s) \in Whitespace THEN Strip(Tail(s))
    ELSE IF s[Len(s)] \in Whitespace THEN Strip(SubSeq(s, 1, Len(s) - 1))
    ELSE s

\* s.startswith(prefix)
StartsWith(s, prefix) ==
    Len(s) >= Len(prefix) /\ \A k \in 1..Len(prefix) : s[k] = prefix[k]

\* [line.strip()[2:] for line in section.split("\n") if line.strip().startswith("- ")]
Items(section) ==
    LET lines    == Split(section, <<"\n">>)
        stripped == [i \in 1..Len(lines) |-> Strip(lines[i])]
        bullets  == SelectSeq(stripped, LAMBDA l : StartsWith(l, <<"-", " ">>))
    IN  [i \in 1..Len(bullets) |-> SubSeq(bullets[i], 3, Len(bullets[i]))]

\* the for loop of load_long_term_memory from section n on: a Facts section
\* replaces facts, a User Preferences section replaces user_preferences by
\* dict(item.split(": ") for item in items), which raises ValueError on an item
\* that does not split in two
RECURSIVE ParseSections(_, _, _)
ParseSections(long, sections, n) ==
    IF n > Len(sections) THEN [long |-> long, exc |-> "none"]
    ELSE LET st    == Strip(sections[n])
             items == Items(sections[n])
             pairs == [i \in 1..Len(items) |-> Split(items[i], <<":", " ">>)]
         IN  IF StartsWith(st, <<"Facts">>)
             THEN ParseSections([long EXCEPT !["facts"] = PyList(items)], sections, n + 1)
             ELSE IF StartsWith(st, <<"User Preferences">>)
             THEN IF \E i \in 1..Len(pairs) : Len(pairs[i]) # 2
                  THEN [long |-> long, exc |-> "ValueError"]
                  ELSE ParseSections(
                           [long EXCEPT !["user_preferences"] =
                                            PyDict(DictUpdate(<<>>, pairs))],
                           sections, n + 1)
             ELSE ParseSections(long, sections, n + 1)

\* the content read is split at "##" and parsed section by section; only
\* FileNotFoundError is caught
LoadLongTermParse ==
    /\ mem.load.at = "parse"
    /\ LET r == ParseSections(mem.long, Split(mem.load.content.text, <<"#", "#">>), 1)
       IN  mem' = [mem EXCEPT
                      !.long = r.long,
                      !.load = [at |-> "idle", content |-> NoMemFile],
                      !.last = [NoMemCall EXCEPT !.op = "load", !.exc = r.exc]]
    /\ UNCHANGED <<graphVars, runVars, ckptVars, sm, hitl, extVars>>

\* MemoryManager(memory_file) over the file an earlier manager has saved;
\* the earlier manager is at rest, its long_term is what its last save wrote
MemoryManagerInit ==
    /\ mem.lock = "free"
    /\ mem.load.at = "idle"
    /\ mem.file.exists
    /\ mem' = [NewMemoryManager EXCEPT
                   !.file = mem.file, !.fresh = TRUE,
                   !.saved = [facts |-> mem.long["facts"].v,
                              user_preferences |-> mem.long["user_preferences"].v]]
    /\ UNCHANGED <<graphVars, runVars, ckptVars, sm, hitl, extVars>>

\* cleanup_long_term_memory: a placeholder, pass
CleanupLongTermMemory ==
    /\ mem' = [mem EXCEPT !.last = [NoMemCall EXCEPT !.op = "cleanup"]]
    /\ UNCHANGED <<graphVars, runVars, ckptVars, sm, hitl, extVars>>

\* time passes
Tick ==
    /\ mem.now < MaxClock
    /\ mem' = [mem EXCEPT !.now = @ + 1]
    /\ UNCHANGED <<graphVars, runVars, ckptVars, sm, hitl, extVars>>

-----------------------------------------------------------------------------
(* HumanInTheLoopComponent *)

Raise(exc, text) == [exc |-> exc, text |-> text, val |-> None]
Return(val) == [exc |-> "none", text |-> "", val |-> val]

\* d.get(key, default) and d[key] of a dict given by its items
HasKey(d, key) == \E i \in 1..Len(d.v) : d.v[i][1] = key
Item(d, key) == d.v[CHOOSE i \in 1..Len(d.v) : d.v[i][1] = key][2]

Truthy(x) ==
    IF x.t = "bool" THEN x.v
    ELSE IF x.t = "none" THEN FALSE
    ELSE x.v # <<>> /\ x.v # ""

\* _generate_system_output
GenerateSystemOutput(cls, gen, input) ==
    IF gen # "own" THEN Raise("Exception", gen)
    ELSE IF cls = "BasicApprovalComponent"
         THEN Return([t |-> "decision", v |-> <<"Proposed action", input>>])
    ELSE IF cls = "IterativeFeedbackComponent"
         THEN Return([t |-> "iteration", v |-> <<1, input>>])
    ELSE Raise("NotImplementedError", "")

\* _process_human_input
ProcessHumanInput(cls, human_input, system_output) ==
    IF cls = "BasicApprovalComponent"
    THEN Return([t |-> "approval",
                 v |-> IF Truthy(human_input) THEN <<"approved", system_output.v[1]>>
                       ELSE <<"rejected", "None">>])
    ELSE IF cls = "IterativeFeedbackComponent"
    THEN IF human_input.t # "dict"
         THEN Raise("TypeError", "object is not subscriptable")
         ELSE IF ~HasKey(human_input, "feedback")
              THEN Raise("KeyError", "'feedback'")
              ELSE Return([t |-> "iteration",
                           v |-> <<system_output.v[1] + 1, Item(human_input, "feedback")>>])
    ELSE Raise("NotImplementedError", "")

\* the exceptions a handler for Exception takes; cancellation is none of them
ExceptionClasses ==
    {"Exception", "NotImplementedError", "KeyError", "TypeError", "AttributeError"}

CatchesKeyErrorOnly(exc) == exc = "KeyError"

\* except Exception
Catches(exc) == exc \in ExceptionClasses

\* f"Error in {self.name} process: {str(e)}"
ErrorMessage(text) == <<"Error in ", ComponentName, " process: ", text>>

\* process ends with the outcome o: a return value, a caught exception turned
\* into an error mapping, or an exception that leaves process
Ended(h, o) ==
    IF o.exc = "none"
    THEN [h EXCEPT !.pc = "returned", !.ret = o.val]
    ELSE IF Catches(o.exc)
         THEN [h EXCEPT !.pc = "returned", !.err = o,
                        !.ret = [t |-> "error", v |-> ErrorMessage(o.text)]]
         ELSE [h EXCEPT !.pc = "raised", !.err = o, !.exc = o.exc]

\* the wait starts without clearing the event and the stored input
GetHumanInputKeepsEvent(h) ==
    [h EXCEPT !.pc = "waiting", !.waitMark = Len(h.submitted)]

\* _get_human_input up to its wait: the event and the stored input are cleared
GetHumanInput(h) ==
    [h EXCEPT !.pc = "waiting", !.event = FALSE, !.value = None,
              !.waitMark = Len(h.submitted)]

\* submit_human_input
SubmitHumanInput(input) ==
    /\ Len(hitl.submitted) < MaxSubmits
    /\ hitl' = [hitl EXCEPT !.value = input, !.event = TRUE,
                            !.submitted = Append(@, input)]
    /\ UNCHANGED <<graphVars, runVars, ckptVars, sm, mem, extVars>>

\* process up to the wait for the human input
Process(cls, gen, input) ==
    /\ hitl.pc \in {"idle", "returned", "raised"}
    /\ hitl.calls < MaxCalls
    /\ LET h == [hitl EXCEPT !.cls = cls, !.calls = @ + 1, !.iteration = 1,
                             !.system_output = None, !.timedOut = FALSE,
                             !.callMark = Len(hitl.submitted),
                             !.callTaken = Len(hitl.consumed),
                             !.err = NoOutcome, !.ret = None, !.exc = "none"]
           g == GenerateSystemOutput(cls, gen, input)
       IN  hitl' = IF g.exc # "none" THEN Ended(h, g)
                   ELSE GetHumanInput([h EXCEPT !.system_output = g.val])
    /\ UNCHANGED <<graphVars, runVars, ckptVars, sm, mem, extVars>>

\* process from the return of _get_human_input with human_input
Resume(h, human_input) ==
    IF h.cls = "IterativeFeedbackComponent"
    THEN IF human_input = None
         THEN Ended(h, Return([t |-> "error", v |-> <<"No human input received">>]))
         ELSE IF human_input.t # "dict"
              THEN Ended(h, Raise("AttributeError", "object has no attribute 'get'"))
         ELSE IF HasKey(human_input, "complete") /\ Item(human_input, "complete") = "True"
              THEN IF HasKey(human_input, "feedback")
                   THEN Ended(h, Return([t |-> "iteration",
                                         v |-> <<h.iteration, Item(human_input, "feedback")>>]))
                   ELSE Ended(h, Raise("KeyError", "'feedback'"))
         ELSE LET p == ProcessHumanInput(h.cls, human_input, h.system_output)
              IN  IF p.exc # "none" THEN Ended(h, p)
                  ELSE GetHumanInput([h EXCEPT !.system_output = p.val,
                                               !.iteration = @ + 1])
    ELSE IF human_input = None
         THEN Ended(h, Return([t |-> "error", v |-> <<"Timeout waiting for human input">>]))
         ELSE Ended(h, ProcessHumanInput(h.cls, human_input, h.system_output))

\* the event is set: wait_for returns, process reads the stored input and
\* runs on to its return or to the next wait
HumanInputArrives ==
    /\ hitl.pc = "waiting"
    /\ hitl.event
    /\ hitl' = Resume([hitl EXCEPT !.consumed = Append(@, hitl.value)], hitl.value)
    /\ UNCHANGED <<graphVars, runVars, ckptVars, sm, mem, extVars>>

\* the 60 s of wait_for pass with the event unset: _get_human_input
\* returns None
HumanInputTimeout ==
    /\ hitl.pc = "waiting"
    /\ ~hitl.event
    /\ hitl' = Resume([hitl EXCEPT !.timedOut = TRUE], None)
    /\ UNCHANGED <<graphVars, runVars, ckptVars, sm, mem, extVars>>

-----------------------------------------------------------------------------
(* Pipeline graph (smartgraph/core.py): execute, execute_and_await *)

\* an event handed to the subscriber: on_next(v), on_error(x), on_completed()
Event(e, x, v) == [e |-> e, x |-> x, v |-> v]

NoEvent == Event("none", "", 0)

\* an observer that never stops: every call reaches the subscriber
OnNextUnguarded(p, v) ==
    [p EXCEPT !.events = Append(@, Event("next", "", v)),
              !.future = IF p.sub = "future" /\ ~@.done
                         THEN [done |-> TRUE, by |-> Event("next", "", v)] ELSE @]

\* the observer reactivex hands to the subscribe function stops at the first
\* on_error or on_completed and drops every later call
OnNext(p, v) ==
    IF p.stopped THEN p
    ELSE [p EXCEPT !.events = Append(@, Event("next", "", v)),
                   !.future = IF p.sub = "future" /\ ~@.done
                              THEN [done |-> TRUE, by |-> Event("next", "", v)] ELSE @]

OnError(p, x) ==
    IF p.stopped THEN p
    ELSE [p EXCEPT !.stopped = TRUE,
                   !.events = Append(@, Event("error", x, 0)),
                   !.future = IF p.sub = "future" /\ ~@.done
                              THEN [done |-> TRUE, by |-> Event("error", x, 0)] ELSE @]

OnCompleted(p) ==
    IF p.stopped THEN p
    ELSE [p EXCEPT !.stopped = TRUE,
                   !.events = Append(@, Event("completed", "", 0)),
                   !.future = IF p.sub = "future" /\ ~@.done
                              THEN [done |-> TRUE, by |-> Event("completed", "", 0)] ELSE @]

\* execute: the two checks, then the observable over a pipeline of n components.
\* reactivex.Observable has no attribute throw, so both failing checks raise
\* AttributeError out of execute and no observable is returned
Executed(p, compiled, known, n, timeout) ==
    IF ~compiled \/ ~known
    THEN [p EXCEPT !.call = "raised"]
    ELSE [p EXCEPT !.call = "observable", !.n = n, !.timeout = timeout]

\* the subscribe function: the task of process_pipeline is created, and
\* after it the task of _cancel_after_timeout when a timeout was given
Subscribed(p, sub) ==
    [p EXCEPT !.call = "subscribed", !.sub = sub, !.task = "created",
              !.timer = IF p.timeout THEN "sleeping" ELSE "none"]

\* execute followed by observable.subscribe(on_next, on_error, on_completed)
PipelineExecute(compiled, known, n, timeout) ==
    /\ pipe.call = "idle"
    /\ LET p == Executed(pipe, compiled, known, n, timeout)
       IN  pipe' = IF p.call = "observable" THEN Subscribed(p, "observer") ELSE p
    /\ UNCHANGED <<graphVars, runVars, ckptVars, sm, mem, hitl, saves, retry, cache>>

\* execute_and_await: execute, then process_observable up to await future
ExecuteAndAwait(compiled, known, n, timeout) ==
    /\ pipe.call = "idle"
    /\ LET p == Executed(pipe, compiled, known, n, timeout)
       IN  pipe' = IF p.call = "observable" THEN Subscribed(p, "future") ELSE p
    /\ UNCHANGED <<graphVars, runVars, ckptVars, sm, mem, hitl, saves, retry, cache>>

\* how one step of the task of process_pipeline ends: at an await inside a
\* component, by an Exception of a component, by a CancelledError leaving the
\* coroutine, or after the last component
StepEnds == {"suspend", "raise", "cancelled", "finish"}

\* one step of the task of process_pipeline: the components up to j have returned,
\* then the step ends as out says.  A cancellation requested by the timeout is
\* thrown into the coroutine at its await: it leaves the coroutine (out =
\* "cancelled" with j = pos), or the component catches it and goes on.
\* except Exception does not catch CancelledError.
ProcessPipeline(j, out) ==
    /\ pipe.task \in {"created", "suspended"}
    /\ j \in pipe.pos..pipe.n
    /\ out \in StepEnds
    /\ (out = "finish") = (j = pipe.n)
    /\ LET p == [pipe EXCEPT !.pos = j, !.mustCancel = FALSE]
           d == [p EXCEPT !.task = "done", !.end = out]
       IN  pipe' = CASE out = "suspend"   -> [p EXCEPT !.task = "suspended"]
                     [] out = "raise"     -> OnError(d, "Exception")
                     [] out = "cancelled" -> d
                     [] out = "finish"    -> OnCompleted(OnNext(d, j))
    /\ UNCHANGED <<graphVars, runVars, ckptVars, sm, mem, hitl, saves, retry, cache>>

\* _cancel_after_timeout after its sleep; the task of process_pipeline was
\* created first, so it has run its first step by then
CancelAfterTimeout ==
    /\ pipe.timer = "sleeping"
    /\ pipe.task # "created"
    /\ pipe' = IF pipe.task # "done"
               THEN OnError([pipe EXCEPT !.timer = "done", !.mustCancel = TRUE,
                                         !.timedOut = TRUE], "TimeoutError")
               ELSE [pipe EXCEPT !.timer = "done"]
    /\ UNCHANGED <<graphVars, runVars, ckptVars, sm, mem, hitl, saves, retry, cache>>

-----------------------------------------------------------------------------
(* RetryComponent (smartgraph/components/processing.py) as a node of the graph *)

\* how one invocation of the wrapped component ends: it returns, it raises an
\* Exception, or a CancelledError (a BaseException) comes out of it
AttemptEnds == {"ok", "ValueError", "RuntimeError", "CancelledError"}

RetryInputs == {"x", "y"}

\* what the wrapped component returns for input_data on its k-th invocation
Result(input, k) == <<input, k>>

\* the for loop of process at its next iteration: range(max_retries) is
\* exhausted when attempt = max_retries, and process falls off its end
\* returning None
Loop(r) ==
    IF r.attempt < r.max_retries THEN [r EXCEPT !.pc = "attempt"]
    ELSE [r EXCEPT !.pc = "returned", !.ret = <<"None", 0>>]

\* the except clause with a retry on any exception, the last attempt included
ExceptAlwaysRetries(r, out) ==
    IF out = "CancelledError"
    THEN [r EXCEPT !.pc = "raised", !.exc = <<out, r.attempt>>]
    ELSE [r EXCEPT !.pc = "sleep"]

\* except Exception: re-raise on the last attempt, else sleep retry_delay;
\* a CancelledError is not caught
Except(r, out) ==
    IF out = "CancelledError" \/ r.attempt = r.max_retries - 1
    THEN [r EXCEPT !.pc = "raised", !.exc = <<out, r.attempt>>]
    ELSE [r EXCEPT !.pc = "sleep"]

\* RetryComponent(name, max_retries, retry_delay, component)
RetryInit(m) ==
    /\ retry.pc = "absent"
    /\ retry' = [retry EXCEPT !.pc = "idle", !.max_retries = m]
    /\ UNCHANGED <<graphVars, runVars, ckptVars, sm, mem, hitl, saves, pipe, cache>>

\* process_node of a traversal awaits node.process(data) once, the node being
\* the RetryComponent: process runs up to its first await
ProcessNode(input) ==
    /\ retry.pc \in {"idle", "returned", "raised"}
    /\ retry.visits < MaxCalls
    /\ retry' = Loop([retry EXCEPT !.visits = @ + 1, !.calls = 1, !.input = input,
                                   !.attempt = 0, !.log = <<>>,
                                   !.ret = <<"none", 0>>, !.exc = <<"none", 0>>])
    /\ UNCHANGED <<graphVars, runVars, ckptVars, sm, mem, hitl, saves, pipe, cache>>

\* await self.component.process(input_data) of the current attempt
Invoke(out) ==
    /\ retry.pc = "attempt"
    /\ LET r == [retry EXCEPT !.log = Append(@, out)]
       IN  retry' = IF out = "ok"
                    THEN [r EXCEPT !.pc = "returned",
                                   !.ret = Result(r.input, Len(r.log))]
                    ELSE Except(r, out)
    /\ UNCHANGED <<graphVars, runVars, ckptVars, sm, mem, hitl, saves, pipe, cache>>

\* asyncio.sleep(retry_delay) is over: the next iteration of the loop
RetryDelay ==
    /\ retry.pc = "sleep"
    /\ retry' = Loop([retry EXCEPT !.attempt = @ + 1])
    /\ UNCHANGED <<graphVars, runVars, ckptVars, sm, mem, hitl, saves, pipe, cache>>

-----------------------------------------------------------------------------
(* CacheComponent (smartgraph/components/processing.py) *)

CacheKeys == {"x", "y", "z"}

\* the keys of the dict, which keeps them in insertion order
KeysOf(entries) == { entries[i].k : i \in 1..Len(entries) }

\* self.cache[key] of a key that is present
Lookup(entries, key) ==
    LET i == CHOOSE i \in 1..Len(entries) : entries[i].k = key IN entries[i].v

\* an eviction that waits until the cache is over its size
EvictWhenOver(entries, size) ==
    IF Len(entries) > size THEN Tail(entries) ELSE entries

\* if len(self.cache) >= self.cache_size: self.cache.pop(next(iter(self.cache)))
Evict(entries, size) ==
    IF Len(entries) >= size THEN Tail(entries) ELSE entries

\* self.cache[key] = value: a present key keeps its place, a new one goes last
SetItem(entries, key, value) ==
    IF key \in KeysOf(entries)
    THEN [i \in 1..Len(entries) |->
             IF entries[i].k = key THEN [k |-> key, v |-> value] ELSE entries[i]]
    ELSE Append(entries, [k |-> key, v |-> value])

\* CacheComponent(name, component, cache_size)
CacheInit(size) ==
    /\ cache.pc = "absent"
    /\ cache' = [cache EXCEPT !.pc = "ready", !.size = size]
    /\ UNCHANGED <<graphVars, runVars, ckptVars, sm, mem, hitl, saves, pipe, retry>>

\* process(key) of caller c up to its return on a hit, or up to the await of
\* the wrapped component on a miss; the component's results are numbered by
\* its invocations
CacheProcess(c, key) ==
    /\ cache.pc = "ready"
    /\ cache.calls[c].pc # "awaiting"
    /\ IF key \in KeysOf(cache.entries)
       THEN cache' = [cache EXCEPT !.calls[c] =
                         [pc |-> "returned", key |-> key, val |-> 0,
                          ret |-> Lookup(cache.entries, key), hit |-> TRUE]]
       ELSE /\ cache.invoked < MaxInvocations
            /\ cache' = [cache EXCEPT !.invoked = @ + 1,
                            !.calls[c] = [pc |-> "awaiting", key |-> key,
                                          val |-> cache.invoked + 1, ret |-> 0,
                                          hit |-> FALSE]]
    /\ UNCHANGED <<graphVars, runVars, ckptVars, sm, mem, hitl, saves, pipe, retry>>

\* the wrapped component of caller c is done: on a result the eviction, the
\* insertion and the return, on an exception nothing but the raise
CacheResume(c, ok) ==
    /\ cache.calls[c].pc = "awaiting"
    /\ LET k == cache.calls[c].key
           v == cache.calls[c].val
       IN  cache' = IF ok
                    THEN [cache EXCEPT
                            !.entries = SetItem(Evict(@, cache.size), k, v),
                            !.calls[c].pc = "returned", !.calls[c].ret = v]
                    ELSE [cache EXCEPT !.calls[c].pc = "raised"]
    /\ UNCHANGED <<graphVars, runVars, ckptVars, sm, mem, hitl, saves, pipe, retry>>

-----------------------------------------------------------------------------
(* Properties *)

Succs(n) == { adj[n][k] : k \in 1..Len(adj[n]) }

RECURSIVE ReachN(_, _)
ReachN(S, k) == IF k = 0 THEN S ELSE ReachN(S \cup UNION { Succs(n) : n \in S }, k - 1)

Acyclic == \A n \in NodeIds : n \notin ReachN(Succs(n), Cardinality(NodeIds))

TasksOn(n) == { i \in 1..Len(tasks) : tasks[i].node = n }

\* C1: in an acyclic graph one execute call executes each node at most once,
\* also a node that two converging branches reach.
C1_EachNodeAtMostOnce ==
    Acyclic => \A n \in NodeIds : Cardinality(TasksOn(n)) <= 1

\* the nodes with a valid edge into n, given the outputs produced so far
FeedersOf(n) ==
    { m \in NodeIds : \E j \in TasksOn(m) :
          /\ tasks[j].out # NoPayload
          /\ InSeq(n, ValidSuccessors(m, tasks[j].out)) }

\* C2: an aggregator node fed by the two branches of a fan-out is invoked with
\* a collection of size 2 that holds the output of either branch.
C2_AggregatorGetsBothBranches ==
    \A i \in 1..Len(tasks) :
        (nodes[tasks[i].node] = "aggregator" /\ Cardinality(FeedersOf(tasks[i].node)) = 2)
        => /\ Cardinality(ItemsOf(tasks[i].input)) = 2
           /\ \A m \in FeedersOf(tasks[i].node) :
                  \E j \in TasksOn(m) : tasks[j].out \in ItemsOf(tasks[i].input)

Gathered(p) == tasks[p].pc = "done" /\ Len(tasks[p].kids) >= 2

\* C3 as stated: a step that gathered several branches returns the result of
\* the branch that completed last in time.
C3_LastCompletedWins ==
    \A p \in 1..Len(tasks) :
        Gathered(p) => tasks[p].result = tasks[tasks[p].lastKid].result

\* C3 amended: a step that gathered several branches returns the result of the
\* branch of the last valid successor in edge order, whichever completed last.
C3_LastValidSuccessorWins ==
    \A p \in 1..Len(tasks) :
        Gathered(p) =>
            LET next == ValidSuccessors(tasks[p].node, tasks[p].out)
                last == tasks[p].kids[Len(tasks[p].kids)]
            IN  /\ tasks[last].node = next[Len(next)]
                /\ tasks[p].result = tasks[last].result

C3_Witness ==
    \E p \in 1..Len(tasks) :
        /\ Gathered(p)
        /\ tasks[p].lastKid # tasks[p].kids[Len(tasks[p].kids)]
        /\ tasks[p].result # tasks[tasks[p].lastKid].result

Linear == \A i \in 1..Len(tasks) : Len(tasks[i].kids) <= 1

\* C4: within a branch a node starts only after its predecessor has returned,
\* with the predecessor's output as its input; a linear chain returns the
\* composition of its nodes, each appending its id to the input.
C4_BranchSequential ==
    /\ \A i \in 1..Len(tasks) :
           tasks[i].parent # 0 =>
               /\ tasks[tasks[i].parent].pc # "running"
               /\ tasks[tasks[i].parent].out # NoPayload
               /\ tasks[i].input = tasks[tasks[i].parent].out
    /\ (call.status = "returned" /\ Linear) =>
           /\ call.result.trace = call.input.trace \o [k \in 1..Len(tasks) |-> tasks[k].node]
           /\ \A k \in 1..Len(tasks) : tasks[k].parent = k - 1

C4_Witness ==
    /\ call.status = "returned"
    /\ Linear
    /\ Len(tasks) = 3
    /\ call.result.trace = <<"A", "B", "C">>

\* C5: when the timeout expires before the traversal has ended, execute ends
\* with a timeout error and hands no result to the caller.
C5_TimeoutNoResult ==
    [][Timeout => /\ call'.status = "raised"
                  /\ call'.exc = "TimeoutError"
                  /\ call'.result = NoPayload
                  /\ globalState' = globalState]_vars

\* C6: when the component of a node raises, the caller gets an ExecutionError
\* whose node_id is the id of that node.
C6_ErrorNamesFailingNode ==
    (call.status = "raised" /\ tasks # <<>> /\ tasks[1].pc = "failed") =>
        /\ call.exc = "ExecutionError"
        /\ call.node_id = tasks[1].by

\* C7: once execute has surfaced a node failure to its caller, no node of the
\* traversal starts executing.
C7_NoStartAfterError ==
    [][(call.status = "raised" /\ tasks # <<>> /\ tasks[1].pc = "failed")
           => Len(tasks') = Len(tasks)]_vars

\* C8: a node whose output carries the termination convention ends the
\* traversal: no successor of it is executed.
C8_ExitEndsTraversal ==
    \A i \in 1..Len(tasks) :
        (tasks[i].out # NoPayload /\ IsExit(tasks[i].out)) => tasks[i].kids = <<>>

\* the checkpoints get_latest_checkpoint finds for a thread
Stored(t) == IF checkpoints[t].loaded THEN checkpoints[t].cps ELSE LoadFromDisk(t)

\* C9: a traversal of a thread with a saved checkpoint starts at the first of
\* the checkpoint's next nodes, and at the caller's start node otherwise.
C9_ResumeAtCheckpoint ==
    tasks # <<>> =>
        IF /\ Stored(SessionThread) # <<>>
           /\ MaxByNodeId(Stored(SessionThread)).next_nodes # <<>>
           /\ Registered(MaxByNodeId(Stored(SessionThread)).next_nodes[1])
        THEN tasks[1].node = MaxByNodeId(Stored(SessionThread)).next_nodes[1]
        ELSE tasks[1].node = call.start

\* C10: get_latest_checkpoint returns the checkpoint of the most recent
\* save_checkpoint call for the thread, or none.
C10_LatestIsMostRecentSave ==
    ret.op = "get_latest" => ret.cp = lastSaved[ret.thread]

\* C11: after save_checkpoint(t, cp) a store that loads the thread from disk
\* returns a checkpoint equal to cp from get_checkpoint(t, cp.node_id) and from
\* get_latest_checkpoint(t).
C11_RoundTrip ==
    ( /\ ret.op \in {"get", "get_latest"}
      /\ ret.hydrated
      /\ lastSaved[ret.thread] # NoCkpt
      /\ ret.op = "get" => ret.node_id = lastSaved[ret.thread].node_id )
    => ret.cp = lastSaved[ret.thread]

\* the members of a JSON object are the checkpoints cps, key by key
Holds(entries, cps) ==
    /\ Len(entries) = Len(cps)
    /\ \A k \in 1..Len(cps) :
           /\ entries[k].key = cps[k].node_id
           /\ entries[k].value.node_id = cps[k].node_id
           /\ entries[k].value.state = cps[k].state
           /\ entries[k].value.next_nodes = cps[k].next_nodes

C13_ClearRemovesAll ==
    /\ ret.op = "clear" =>
           /\ ret.exc = "none"
           /\ ~checkpoints[ret.thread].loaded
           /\ ~disk[ret.thread].exists
    /\ (ret.op = "get_latest" /\ lastSaved[ret.thread] = NoCkpt) => ret.cp = NoCkpt

\* a clear that deleted the file of a thread
C13_Witness ==
    /\ ret.op = "clear"
    /\ ret.removed
    /\ ~disk[ret.thread].exists

\* C14: get_checkpoint and get_latest_checkpoint never raise; for a thread
\* that is not in memory they load the file first, and a missing, empty or
\* corrupt file gives none.
C14_LoadOnDemand ==
    ret.op \in {"get", "get_latest"} =>
        /\ ret.exc = "none"
        /\ checkpoints[ret.thread].loaded
        /\ ret.hydrated =>
               IF disk[ret.thread].exists /\ disk[ret.thread].text = "json"
               THEN Holds(disk[ret.thread].entries, checkpoints[ret.thread].cps)
               ELSE /\ checkpoints[ret.thread].cps = <<>>
                    /\ ret.cp = NoCkpt

\* a thread that was saved and whose file a crash left corrupt is read
C14_Witness ==
    /\ ret.op \in {"get", "get_latest"}
    /\ ret.hydrated
    /\ disk[ret.thread].text = "corrupt"
    /\ lastSaved[ret.thread] # NoCkpt
    /\ ret.cp = NoCkpt


\* C15: after any sequence of add_node and add_edge calls the graph has one
\* vertex per registered node id and no other vertex, and both ends of every
\* edge are registered nodes.
C15_WellFormed ==
    /\ vertices = { n \in NodeIds : nodes[n] # "absent" }
    /\ \A n \in NodeIds :
           /\ adj[n] # <<>> => nodes[n] # "absent"
           /\ \A k \in 1..Len(adj[n]) :
                  adj[n][k] \in NodeIds /\ nodes[adj[n][k]] # "absent"
    /\ \A e \in NodeIds \X NodeIds : edgeCond[e] # NoCond => InSeq(e[2], adj[e[1]])

\* a graph with an edge, two more vertices, and a rejected add_edge behind it
C15_Witness ==
    /\ Cardinality(vertices) >= 3
    /\ \E n \in NodeIds : adj[n] # <<>>
    /\ raised.type = "GraphStructureError"
    /\ Len(raised.about) = 2

\* C16: add_node with an id that is registered raises GraphStructureError and
\* changes neither the registered nodes nor the graph.
C16_DuplicateNodeRejected ==
    [][\A a \in NodeInputs :
           (nodes[a[1]] # "absent" /\ AddNode(a[1], a[2]))
           => /\ raised'.type = "GraphStructureError"
              /\ raised'.about = <<a[1]>>
              /\ UNCHANGED <<nodes, vertices, adj, edgeCond>>]_vars

\* add_node was rejected for a node that has an outgoing edge
C16_Witness ==
    /\ raised.type = "GraphStructureError"
    /\ Len(raised.about) = 1
    /\ adj[raised.about[1]] # <<>>

\* C17: add_edge with a source or a target that is not registered raises
\* GraphStructureError and adds neither an edge nor a vertex.
C17_InvalidEdgeRejected ==
    [][\A e \in EdgeInputs :
           ( /\ \E k \in 1..2 : e[k] \notin NodeIds \/ nodes[e[k]] = "absent"
             /\ AddEdge(e[1], e[2], e[3]) )
           => /\ raised'.type = "GraphStructureError"
              /\ raised'.about = <<e[1], e[2]>>
              /\ UNCHANGED <<nodes, vertices, adj, edgeCond>>]_vars

\* add_edge was rejected for a registered source and a target that is not
C17_Witness ==
    /\ raised.type = "GraphStructureError"
    /\ Len(raised.about) = 2
    /\ Registered(raised.about[1])
    /\ raised.about[2] \in NodeIds
    /\ ~Registered(raised.about[2])

\* C18: execute with a start id that is not registered raises
\* GraphStructureError at once: it starts no node and leaves the global state
\* as it was.
C18_UnknownStartRejected ==
    [][\A start \in AllIds, d \in Inputs :
           ( /\ start \notin NodeIds \/ nodes[start] = "absent"
             /\ Execute(start, d) )
           => /\ call'.status = "raised"
              /\ call'.exc = "GraphStructureError"
              /\ tasks' = <<>>
              /\ globalState' = globalState]_vars

\* execute was rejected on a graph with nodes and a global state set before
C18_Witness ==
    /\ call.status = "raised"
    /\ call.exc = "GraphStructureError"
    /\ vertices # {}
    /\ globalState.execution_result # NoPayload
    /\ globalState.execution_input = NoPayload
    /\ tasks = <<>>

\* every predicate of the condition c holds on res
AllTrue(c, res) == \A j \in 1..Len(c) : PredHolds(c[j], res)

\* node n has an outgoing edge whose condition holds on res
HasValidEdge(n, res) ==
    \E k \in 1..Len(adj[n]) : AllTrue(edgeCond[<<n, adj[n][k]>>], res)

\* C19: cycles and self-loops do not stop a traversal: execute returns
\* normally only when every task is done and every branch has ended at a node
\* without valid outgoing edge; once all tasks are done the call ends normally;
\* a traversal that ends otherwise, without a node failure, was ended by the
\* timeout with a timeout error.
C19_CyclesRunUntilDeadEndOrTimeout ==
    /\ call.status = "returned" =>
           \A i \in 1..Len(tasks) :
               /\ tasks[i].pc = "done"
               /\ tasks[i].kids = <<>> => ~HasValidEdge(tasks[i].node, tasks[i].out)
    /\ (tasks # <<>> /\ \A i \in 1..Len(tasks) : tasks[i].pc = "done")
           => call.status \in {"running", "returned"}
    /\ (call.status = "raised" /\ tasks # <<>> /\ tasks[1].pc # "failed")
           => /\ call.exc = "TimeoutError"
              /\ tasks[1].pc = "cancelled"

\* C20: the successors started from a node are exactly the targets of its
\* outgoing edges whose predicates all hold on the node's result, in edge
\* order; ConditionEvaluator.evaluate is the conjunction of the predicates,
\* true for the empty list.
C20_EdgeFollowedIffAllTrue ==
    \A i \in 1..Len(tasks) :
        tasks[i].out # NoPayload =>
            /\ [k \in 1..Len(tasks[i].kids) |-> tasks[tasks[i].kids[k]].node]
                   = SelectSeq(adj[tasks[i].node],
                               LAMBDA n : AllTrue(edgeCond[<<tasks[i].node, n>>], tasks[i].out))
            /\ \A j \in 1..Len(tasks) : tasks[j].parent = i => InSeq(j, tasks[i].kids)
            /\ \A c \in CondKinds : Evaluate(c, tasks[i].out) <=> AllTrue(c, tasks[i].out)
            /\ Evaluate(<<>>, tasks[i].out)

\* node B went on to C but not to D: of the two predicates of the edge to D
\* one holds on B's result and one does not
C20_Witness ==
    \E i \in 1..Len(tasks) :
        /\ tasks[i].node = "B"
        /\ tasks[i].out # NoPayload
        /\ InSeq("D", adj["B"])
        /\ edgeCond[<<"B", "D">>] = <<"ok", "short">>
        /\ PredHolds("short", tasks[i].out)
        /\ ~PredHolds("ok", tasks[i].out)
        /\ Len(tasks[i].kids) = 1
        /\ tasks[tasks[i].kids[1]].node = "C"

\* C21: update_state(key, value) stores reducer(old, value) when a reducer is
\* registered for key, old being the current value or None, and value itself
\* otherwise; every other key keeps its value.
C21_UpdateAppliesReducer ==
    [][\A u \in UpdateInputs :
           UpdateState(u[1], u[2]) =>
               /\ \A k \in Keys \ {u[1]} : sm'.state[k] = sm.state[k]
               /\ sm.reducers[u[1]] = "none" => sm'.state[u[1]] = u[2]
               /\ ( /\ sm.reducers[u[1]] # "none"
                    /\ Reducer(sm.reducers[u[1]], sm.state[u[1]], u[2]).exc = "none" )
                  => sm'.state[u[1]] = Reducer(sm.reducers[u[1]], sm.state[u[1]], u[2]).val]_vars

\* the sum reducer added 2 to 1 while another key holds a plain value
C21_Witness ==
    /\ sm.last.op = "update"
    /\ sm.last.reducer = "sum"
    /\ sm.last.old = PyInt(1)
    /\ sm.state["sum"] = PyInt(3)
    /\ sm.state["plain"] = PyStr("a")

\* C26: with list_append_reducer registered for a key, the updates made since
\* then, in any grouping, leave the key holding the values in order after what
\* it held before, also when it held nothing; no update raises.
C26_AppendInOrder ==
    \A k \in Keys :
        ( /\ sm.reducers[k] = "list_append"
          /\ sm.base[k].t \in {"none", "list"}
          /\ sm.since[k] # <<>> )
        => /\ sm.state[k] = PyList((IF sm.base[k].t = "list" THEN sm.base[k].v ELSE <<>>)
                                   \o sm.since[k])
           /\ (sm.last.op = "update" /\ sm.last.key = k) => sm.last.exc = "none"


\* C22: get_short_term(key) and get_long_term(key) never raise: for a key
\* that has no value they return a defined empty default.
C22_GettersNeverRaise ==
    mem.last.op \in {"get_short", "get_long"} => mem.last.exc = "none"

\* the value of key in long_term shows the update (key, value)
Reflects(long, key, value) ==
    IF key = "facts"
    THEN /\ long[key].t = "list"
         /\ long[key].v # <<>>
         /\ long[key].v[Len(long[key].v)] = value.v
    ELSE IF key = "user_preferences"
    THEN /\ long[key].t = "dict"
         /\ \A i \in 1..Len(value.v) :
                \E j \in 1..Len(long[key].v) : long[key].v[j] = value.v[i]
    ELSE long[key] = value

\* C23: once update_long_term(key, value) has returned, the long-term value
\* of key reflects the update: appended for the accumulating collection,
\* merged or overwritten for every other key; no update is dropped.
C23_LongTermUpdateVisible ==
    (mem.last.op = "update_long" /\ mem.ult.at = "idle")
        => Reflects(mem.long, mem.last.key, mem.last.value)

\* a long-term key that holds nothing
Absent(v) == v.t \in {"missing", "none"} \/ v.v = <<>>

\* C24: after the long-term cleanup has run, every long-term key last
\* accessed more than TTL ago is absent and every key accessed within TTL
\* keeps its value.
C24_CleanupEvictsExpired ==
    [][CleanupLongTermMemory =>
          \A k \in LongKeys :
              /\ mem.now - mem.accessed[k] > TTL => Absent(mem'.long[k])
              /\ mem.now - mem.accessed[k] <= TTL => mem'.long[k] = mem.long[k]]_vars

\* the mutating calls that are inside their read-modify-write section
InSection ==
    (IF mem.lock # "free" THEN {mem.lock} ELSE {})
        \cup (IF mem.load.at = "parse" THEN {"load_long_term_memory"} ELSE {})

\* C25: the mutating operations of a MemoryManager are mutually exclusive: at
\* most one of them is inside its read-modify-write section at a time.
C25_MutatorsExclusive == Cardinality(InSection) <= 1


\* C27: when execute(start, input) returns successfully, the global state
\* holds execution_input equal to the input of the call and execution_result
\* equal to the value the call returns.
C27_GlobalStateRecordsCall ==
    [][(ExecuteReturn /\ call'.status = "returned") =>
          /\ globalState'.execution_input = call'.input
          /\ globalState'.execution_result = call'.result]_vars

C27_Witness ==
    /\ call.status = "returned"
    /\ call.result # NoPayload
    /\ Len(tasks) >= 2
    /\ globalState.execution_input = call.input
    /\ globalState.execution_result = call.result


\* C28: process never raises: an exception in generating the system output
\* or in processing the human input is returned as a mapping {"error":
\* message} whose message contains the text of the exception, and a wait for
\* human input that times out returns a mapping with an "error" key.
C28_ProcessNeverRaises ==
    /\ hitl.pc # "raised"
    /\ hitl.exc = "none"
    /\ hitl.pc = "returned" =>
          /\ hitl.err.exc # "none" =>
                /\ hitl.ret.t = "error"
                /\ \E i \in 1..Len(hitl.ret.v) : hitl.ret.v[i] = hitl.err.text
          /\ hitl.timedOut => hitl.ret.t = "error"

C28_Witness ==
    /\ hitl.pc = "returned"
    /\ hitl.cls = "IterativeFeedbackComponent"
    /\ hitl.err.exc = "KeyError"
    /\ Len(hitl.consumed) >= 2
    /\ hitl.ret = [t |-> "error", v |-> ErrorMessage("'feedback'")]


\* the 60 s timeout of execute has expired
TimeoutFired == call.status = "raised" /\ call.exc \in {"TimeoutError", "RecursionError"}

\* C29: a node with two or more valid outgoing edges starts one continuation
\* per valid successor, none skipped, and its traversal step ends only after
\* all of them have ended, unless the timeout has fired.
C29_FanOutAwaitedJointly ==
    \A p \in 1..Len(tasks) :
        Len(tasks[p].kids) >= 2 =>
            /\ [k \in 1..Len(tasks[p].kids) |-> tasks[tasks[p].kids[k]].node]
                   = ValidSuccessors(tasks[p].node, tasks[p].out)
            /\ tasks[p].pc \in {"done", "failed"} =>
                   \/ TimeoutFired
                   \/ \A k \in 1..Len(tasks[p].kids) : ~Live(tasks[tasks[p].kids[k]].pc)


\* C30: once the timeout of execute has fired, no node execution of the
\* traversal is started in any branch, and the caller gets the timeout error.
C30_TimeoutStopsScheduling ==
    [][/\ Timeout => call'.exc = "TimeoutError"
       /\ TimeoutFired => Len(tasks') = Len(tasks)]_vars


\* the members of a thread's file
Persisted(d) == IF d.exists /\ d.text = "json" THEN d.entries ELSE <<>>

\* C31: save_checkpoint(t, cp) removes no checkpoint of thread t persisted
\* before under another node id: it is still in the file after the save, also
\* when the saving manager has not loaded the thread.
C31_SaveKeepsPersisted ==
    [][\A t \in Threads, cp \in CkptInputs :
           SaveCheckpoint(t, cp) =>
               \A k \in 1..Len(Persisted(disk[t])) :
                   Persisted(disk[t])[k].key # cp.node_id =>
                       \E j \in 1..Len(Persisted(disk'[t])) :
                           Persisted(disk'[t])[j] = Persisted(disk[t])[k]]_vars


\* C32: once all concurrent save_checkpoint calls for a thread have returned,
\* the file of the thread contains every checkpoint the thread holds in
\* memory.
C32_ConcurrentSavesPersistAll ==
    (\A c \in Callers : saves[c].at = "idle") =>
        \A t \in Threads :
            \A k \in 1..Len(checkpoints[t].cps) :
                \E j \in 1..Len(Persisted(disk[t])) :
                    Persisted(disk[t])[j].value = Dict(checkpoints[t].cps[k])


\* the result of the chain that starts at node id with data and follows the
\* last valid successor at every node, for at most n nodes
RECURSIVE LastBranchResult(_, _, _)
LastBranchResult(id, data, n) ==
    LET res  == Output(nodes[id], id, data)
        next == ValidSuccessors(id, res)
    IN  IF next = <<>> \/ n = 0 THEN res
        ELSE LastBranchResult(next[Len(next)], res, n - 1)

\* C33: the value execute returns is fixed by the graph and the component
\* outputs: it is the result of the branch of the last valid successor in
\* edge order at every fan-out, whatever the completion order of the branches.
C33_ResultDeterministic ==
    call.status = "returned" =>
        call.result = LastBranchResult(call.start, call.input, MaxExec)

\* a returned call whose first branch finished after its last branch
C33_Witness ==
    /\ call.status = "returned"
    /\ Len(tasks[1].kids) >= 2
    /\ tasks[1].lastKid = tasks[1].kids[1]
    /\ call.result = tasks[tasks[1].kids[Len(tasks[1].kids)]].result
    /\ call.result # tasks[tasks[1].kids[1]].result


\* C34: when execute ends with an error of a component or with the timeout,
\* execution_result keeps the value it had before the call, and
\* execution_input holds the input of the failed call.
C34_ErrorKeepsResult ==
    [][/\ (call.status \in {"idle", "running"} /\ call'.status \in {"running", "raised"})
           => globalState'.execution_result = globalState.execution_result
       /\ (call.status = "running" /\ call'.status = "raised")
           => globalState'.execution_input = call'.input]_vars

\* a failed call on a graph whose global state held a result before
C34_Witness ==
    /\ call.status = "raised"
    /\ call.exc \in {"ExecutionError", "RuntimeError", "TimeoutError"}
    /\ globalState.execution_result \in { p.execution_result : p \in Patches }
    /\ globalState.execution_input = call.input
    /\ call.input # NoPayload


\* the inputs submitted and the inputs consumed since the process call began
SubmittedInCall == SubSeq(hitl.submitted, hitl.callMark + 1, Len(hitl.submitted))
ConsumedInCall == SubSeq(hitl.consumed, hitl.callTaken + 1, Len(hitl.consumed))

IsComplete(x) == x.t = "dict" /\ HasKey(x, "complete") /\ Item(x, "complete") = "True"

\* C35: IterativeFeedbackComponent.process consumes the inputs submitted
\* during the call once each and in submission order; it returns a result
\* only on an input flagged complete, and the iteration number it returns is
\* the number of inputs submitted up to and including that one.
C35_InputsConsumedInOrder ==
    hitl.cls = "IterativeFeedbackComponent" =>
        /\ Len(ConsumedInCall) <= Len(SubmittedInCall)
        /\ \A k \in 1..Len(ConsumedInCall) : ConsumedInCall[k] = SubmittedInCall[k]
        /\ (hitl.pc = "returned" /\ hitl.ret.t = "iteration") =>
               /\ IsComplete(ConsumedInCall[Len(ConsumedInCall)])
               /\ hitl.ret.v[1] = Len(ConsumedInCall)
               /\ \A k \in 1..(Len(ConsumedInCall) - 1) : ~IsComplete(SubmittedInCall[k])

ResultThenCompletion == <<Event("next", "", pipe.n), Event("completed", "", 0)>>

OneError == { <<Event("error", x, 0)>> : x \in {"Exception", "TimeoutError"} }

\* C37 as stated: once the task of process_pipeline is done, the subscriber has
\* got exactly one terminal outcome, the result followed by completion or one
\* error, and the future of execute_and_await holds the first event
C37_ExactlyOneOutcome ==
    pipe.task = "done" =>
        /\ pipe.events \in {ResultThenCompletion} \cup OneError
        /\ pipe.sub = "future" => pipe.future = [done |-> TRUE, by |-> pipe.events[1]]

\* C37 amended: a subscriber gets at most one terminal outcome, the result
\* followed by completion or one error, never a result after the timeout error
\* nor a timeout error after the result; it has got one as soon as the task
\* ended with a result or an Exception or the timeout cancelled the task; it
\* gets none when the task ended by a CancelledError the timeout did not
\* request; the future of execute_and_await is resolved by the first event
C37_AtMostOneOutcome ==
    /\ pipe.events \in {<<>>, ResultThenCompletion} \cup OneError
    /\ pipe.end \in {"raise", "finish"} \/ pipe.timedOut => pipe.events # <<>>
    /\ pipe.timedOut => pipe.events = <<Event("error", "TimeoutError", 0)>>
    /\ pipe.end = "cancelled" /\ ~pipe.timedOut => pipe.events = <<>>
    /\ pipe.end = "raise" /\ ~pipe.timedOut => pipe.events = <<Event("error", "Exception", 0)>>
    /\ pipe.end = "finish" /\ ~pipe.timedOut => pipe.events = ResultThenCompletion
    /\ pipe.future.done = (pipe.sub = "future" /\ pipe.events # <<>>)
    /\ pipe.future.done => pipe.future.by = pipe.events[1]

\* the timeout cancelled the task, a component caught the cancellation and the
\* pipeline ran to its end: the subscriber keeps the timeout error alone
C37_Witness ==
    /\ pipe.task = "done"
    /\ pipe.end = "finish"
    /\ pipe.timedOut
    /\ pipe.sub = "future"
    /\ pipe.n = MaxComponents
    /\ pipe.future.by = Event("error", "TimeoutError", 0)


\* the invocations of the wrapped component that ended by an Exception
Failed(log) == \A k \in 1..Len(log) : log[k] \in {"ValueError", "RuntimeError"}

Others(entries, key) == SelectSeq(entries, LAMBDA e : e.k # key)

\* C39: the cache never holds more than cache_size entries; a miss that finds
\* the cache full evicts the entry inserted earliest and no other; a hit
\* returns the cached result, invokes nothing and leaves the cache as it was
C39_CacheBounded ==
    [][\A c \in Callers :
          /\ Len(cache'.entries) <= cache'.size
          /\ cache.pc = "ready" /\ cache.calls[c].pc = "awaiting"
             /\ cache'.calls[c].pc = "returned" =>
                LET key == cache.calls[c].key
                    kept == IF Len(cache.entries) >= cache.size
                            THEN Tail(cache.entries) ELSE cache.entries
                IN  /\ Others(cache'.entries, key) = Others(kept, key)
                    /\ key \in KeysOf(cache'.entries)
                    /\ Lookup(cache'.entries, key) = cache'.calls[c].ret
                    /\ cache'.calls[c].ret = cache.calls[c].val
          /\ cache.pc = "ready" /\ cache.calls[c].pc # "awaiting"
             /\ cache'.calls[c] # cache.calls[c]
             /\ cache'.calls[c].key \in KeysOf(cache.entries) =>
                /\ cache'.calls[c].pc = "returned"
                /\ cache'.calls[c].ret = Lookup(cache.entries, cache'.calls[c].key)
                /\ cache'.invoked = cache.invoked
                /\ cache'.entries = cache.entries
    ]_vars

\* two misses were in flight together on a cache of size 1, the second
\* evicted the entry of the first, and a later call hit the second's entry
C39_Witness ==
    /\ cache.size = 1
    /\ cache.invoked = 2
    /\ cache.entries = <<[k |-> "y", v |-> 2]>>
    /\ cache.calls["c1"] = [pc |-> "returned", key |-> "y", val |-> 0, ret |-> 2, hit |-> TRUE]
    /\ cache.calls["c2"].pc = "returned"
    /\ cache.calls["c2"].key = "y"
    /\ ~cache.calls["c2"].hit


\* C40: after update_long_term has saved, load_long_term_memory on a fresh
\* MemoryManager over the same file restores the saved facts in their order
\* and the saved user_preferences, whatever str values they hold
C40_RoundTrip ==
    mem.fresh /\ mem.last.op = "load" =>
        /\ mem.last.exc = "none"
        /\ mem.long["facts"].v = mem.saved.facts
        /\ mem.long["user_preferences"].v = mem.saved.user_preferences


-----------------------------------------------------------------------------
(* Specifications *)

Next ==
    \/ \E a \in NodeInputs : AddNode(a[1], a[2])
    \/ \E e \in EdgeInputs : AddEdge(e[1], e[2], e[3])
    \/ \E patch \in Patches : UpdateGlobalState(patch)
    \/ \E s \in AllIds, d \in Inputs : Execute(s, d)
    \/ \E i \in 1..MaxExec : FinishNode(i)
    \/ \E p \in 1..MaxExec : GatherWake(p)
    \/ ExecuteReturn
    \/ Timeout

Spec == Init /\ [][Next]_vars

\* the checkpoint store on its own
NextCheckpoint ==
    \/ \E t \in Threads, cp \in CkptInputs : SaveCheckpoint(t, cp)
    \/ \E t \in Threads : GetLatestCheckpoint(t)
    \/ \E t \in Threads, id \in CkptIds : GetCheckpoint(t, id)
    \/ \E t \in Threads : ClearCheckpoints(t)
    \/ NewManager

SpecCheckpoint == Init /\ [][NextCheckpoint]_vars

NextState ==
    \/ \E r \in ReducerInputs : SetReducer(r[1], r[2])
    \/ \E u \in UpdateInputs : UpdateState(u[1], u[2])
    \/ ClearState

SpecState == Init /\ [][NextState]_vars

NextMemory ==
    \/ \E u \in ShortInputs : UpdateShortTerm(u[1], u[2])
    \/ \E k \in ShortKeys : GetShortTerm(k)
    \/ \E k \in LongKeys : GetLongTerm(k)
    \/ /\ Len(mem.short["conversation_history"].v) < MaxMessages
       /\ UpdateConversationHistory("User: hi")
    \/ \E u \in LongInputs : UpdateLongTermBegin(u[1], u[2])
    \/ UpdateLongTermOpen
    \/ UpdateLongTermWrite
    \/ LoadLongTermRead
    \/ LoadLongTermParse

SpecMemory == Init /\ [][NextMemory]_vars

\* the long-term memory of one caller over time
NextMemoryTtl ==
    \/ \E k \in LongKeys : GetLongTerm(k)
    \/ \E u \in LongInputs : UpdateLongTermBegin(u[1], u[2])
    \/ UpdateLongTermOpen
    \/ UpdateLongTermWrite
    \/ CleanupLongTermMemory
    \/ Tick

SpecMemoryTtl == Init /\ [][NextMemoryTtl]_vars

\* a human-in-the-loop component, its caller and the human
NextHuman ==
    \/ \E cls \in HumanClasses, gen \in Generators : Process(cls, gen, "Test input")
    \/ \E input \in HumanInputs : SubmitHumanInput(input)
    \/ HumanInputArrives
    \/ HumanInputTimeout

SpecHuman == Init /\ [][NextHuman]_vars

\* one manager used by concurrent callers of save_checkpoint for one thread
NextSaves ==
    \/ \E c \in Callers, cp \in CkptInputs : SaveBegin(c, SessionThread, cp)
    \/ \E c \in Callers : SaveOpen(c)
    \/ \E c \in Callers : SaveWrite(c)

SpecSaves == Init /\ [][NextSaves]_vars

\* the store with crashes of the writing process
NextCheckpointFaults ==
    \/ NextCheckpoint
    \/ \E t \in Threads, kind \in DamageKinds : InterruptedWrite(t, kind)

SpecCheckpointFaults == Init /\ [][NextCheckpointFaults]_vars

\* a session that saved checkpoints for its thread and then calls execute
NextResume ==
    \/ \E a \in {<<"A", "append">>, <<"B", "append">>} : AddNode(a[1], a[2])
    \/ AddEdge("A", "B", DefaultCondition)
    \/ \E cp \in CkptInputs : call.status = "idle" /\ SaveCheckpoint(SessionThread, cp)
    \/ \E s \in {"A", "B"}, d \in Inputs : Execute(s, d)
    \/ \E i \in 1..MaxExec : FinishNode(i)
    \/ \E p \in 1..MaxExec : GatherWake(p)
    \/ ExecuteReturn
    \/ Timeout

SpecResume == Init /\ [][NextResume]_vars

\* the pipeline graph on its own
NextPipeline ==
    \/ \E compiled \in BOOLEAN, known \in BOOLEAN, n \in 0..MaxComponents, timeout \in BOOLEAN :
          PipelineExecute(compiled, known, n, timeout)
    \/ \E compiled \in BOOLEAN, known \in BOOLEAN, n \in 0..MaxComponents, timeout \in BOOLEAN :
          ExecuteAndAwait(compiled, known, n, timeout)
    \/ \E j \in 0..MaxComponents, out \in StepEnds : ProcessPipeline(j, out)
    \/ CancelAfterTimeout

SpecPipeline == Init /\ [][NextPipeline]_vars

\* a RetryComponent node on its own
NextRetry ==
    \/ \E m \in 0..MaxRetries : RetryInit(m)
    \/ \E input \in RetryInputs : ProcessNode(input)
    \/ \E out \in AttemptEnds : Invoke(out)
    \/ RetryDelay

SpecRetry == Init /\ [][NextRetry]_vars

\* a CacheComponent on its own, with two callers of process
NextCache ==
    \/ \E size \in 1..MaxCacheSize : CacheInit(size)
    \/ \E c \in Callers, key \in CacheKeys : CacheProcess(c, key)
    \/ \E c \in Callers, ok \in BOOLEAN : CacheResume(c, ok)

SpecCache == Init /\ [][NextCache]_vars

\* saves by one MemoryManager, then a load by a fresh one over the same file
NextRoundTrip ==
    \/ \E u \in TextInputs : ~mem.fresh /\ UpdateLongTermBegin(u[1], u[2])
    \/ UpdateLongTermOpen
    \/ UpdateLongTermWrite
    \/ ~mem.fresh /\ MemoryManagerInit
    \/ mem.fresh /\ LoadLongTermRead
    \/ LoadLongTermParse

SpecRoundTrip == Init /\ [][NextRoundTrip]_vars

====
